---------------------------- MODULE Spec2Model ----------------------------
(***************************************************************************)
(* Model of the Divyang-portal chatbot backend (harsh25kahate/chatbot-     *)
(* backend).  The repository holds ten iterations of one Express service;  *)
(* each iteration ("variant") is one server program:                       *)
(*                                                                         *)
(*   agent1  src/agent.js 1-127          static scheme table, context slots*)
(*   agent2  src/agent.js 129-357        model extracts slots, axios fetch *)
(*   p000a   src/unnamed/part_000 1-132  model only, unguarded JSON.parse  *)
(*   p000b   src/unnamed/part_000 133-490 rule based, session slots        *)
(*   p000c   src/unnamed/part_000 491-661 model only, coerceGeminiJson     *)
(*   p001    src/unnamed/part_001        smart filter + model, history     *)
(*   p002    src/unnamed/part_002        model only, history (Marathi)     *)
(*   p003    src/unnamed/part_003        smart filter + model, history     *)
(*   p004    src/unnamed/part_004        model only, history, language     *)
(*   p005    src/unnamed/part_005        rule based, session slots         *)
(*                                                                         *)
(* Strings that the code inspects (request messages, disability types)     *)
(* are sequences of one-character strings, so that includes(), toLowerCase *)
(* and the regular expressions are computed.  Text returned by the model   *)
(* is a sequence of JSON tokens, so that JSON.parse, the fence stripping   *)
(* and the brace extraction are computed.                                  *)
(***************************************************************************)
EXTENDS Integers, Sequences, FiniteSets, TLC

\* ------------------------------------------------------------------------
\* Library layer: JavaScript strings
\* ------------------------------------------------------------------------

Digits == {"0", "1", "2", "3", "4", "5", "6", "7", "8", "9"}

UpperCase == {"A", "B", "C", "D", "E", "F", "G", "H", "I", "J", "K", "L", "M",
              "N", "O", "P", "Q", "R", "S", "T", "U", "V", "W", "X", "Y", "Z"}

LowerCase == {"a", "b", "c", "d", "e", "f", "g", "h", "i", "j", "k", "l", "m",
              "n", "o", "p", "q", "r", "s", "t", "u", "v", "w", "x", "y", "z"}

\* String.prototype.toLowerCase on one character.
LowerChar(c) ==
    CASE c = "A" -> "a" [] c = "B" -> "b" [] c = "C" -> "c" [] c = "D" -> "d"
      [] c = "E" -> "e" [] c = "F" -> "f" [] c = "G" -> "g" [] c = "H" -> "h"
      [] c = "I" -> "i" [] c = "J" -> "j" [] c = "K" -> "k" [] c = "L" -> "l"
      [] c = "M" -> "m" [] c = "N" -> "n" [] c = "O" -> "o" [] c = "P" -> "p"
      [] c = "Q" -> "q" [] c = "R" -> "r" [] c = "S" -> "s" [] c = "T" -> "t"
      [] c = "U" -> "u" [] c = "V" -> "v" [] c = "W" -> "w" [] c = "X" -> "x"
      [] c = "Y" -> "y" [] c = "Z" -> "z" [] OTHER -> c

\* String.prototype.toLowerCase.
ToLower(s) == [i \in 1..Len(s) |-> LowerChar(s[i])]

\* parseInt on one decimal digit.
DigitVal(c) ==
    CASE c = "0" -> 0 [] c = "1" -> 1 [] c = "2" -> 2 [] c = "3" -> 3
      [] c = "4" -> 4 [] c = "5" -> 5 [] c = "6" -> 6 [] c = "7" -> 7
      [] c = "8" -> 8 [] c = "9" -> 9 [] OTHER -> 0

\* The regular-expression classes \w, \d and \s.
IsWordChar(c) == c \in Digits \cup UpperCase \cup LowerCase \cup {"_"}
IsDigit(c) == c \in Digits
IsSpace(c) == c \in {" ", "\n", "\t"}

\* s has the literal lit at position i (1-based).
HasAt(s, i, lit) ==
    /\ i >= 1
    /\ i + Len(lit) - 1 <= Len(s)
    /\ \A k \in 1..Len(lit) : s[i + k - 1] = lit[k]

\* String.prototype.includes: "".includes("") and s.includes("") are true.
Includes(s, lit) == \E i \in 1..(Len(s) - Len(lit) + 1) : HasAt(s, i, lit)

\* The regular-expression assertion \b between positions i-1 and i.
WordBoundary(s, i) ==
    LET before == i >= 2 /\ i - 1 <= Len(s) /\ IsWordChar(s[i - 1])
        after  == i >= 1 /\ i <= Len(s) /\ IsWordChar(s[i])
    IN  before # after

\* Number of digits of s starting at position i.
RECURSIVE DigitRun(_, _)
DigitRun(s, i) ==
    IF i >= 1 /\ i <= Len(s) /\ IsDigit(s[i]) THEN 1 + DigitRun(s, i + 1) ELSE 0

\* First position at or after i that is not white space (\s* is greedy).
RECURSIVE SkipSpace(_, _)
SkipSpace(s, i) ==
    IF i >= 1 /\ i <= Len(s) /\ IsSpace(s[i]) THEN SkipSpace(s, i + 1) ELSE i

\* parseInt of the n digits of s at position i (n is 1 or more).
RECURSIVE ParseDigits(_, _, _)
ParseDigits(s, i, n) ==
    IF n = 0 THEN 0
    ELSE 10 * ParseDigits(s, i, n - 1) + DigitVal(s[i + n - 1])

\* Smallest member of a non-empty set of integers (leftmost match).
MinOf(S) == CHOOSE x \in S : \A y \in S : x <= y
MaxOf(S) == CHOOSE x \in S : \A y \in S : x >= y

\* String.prototype.trim.
RECURSIVE TrimLeft(_)
TrimLeft(s) == IF Len(s) > 0 /\ IsSpace(s[1]) THEN TrimLeft(Tail(s)) ELSE s
RECURSIVE TrimRight(_)
TrimRight(s) ==
    IF Len(s) > 0 /\ IsSpace(s[Len(s)])
    THEN TrimRight(SubSeq(s, 1, Len(s) - 1)) ELSE s
Trim(s) == TrimRight(TrimLeft(s))

\* Array.prototype.slice(0, n); Array.prototype.filter is SelectSeq.
SliceFirst(s, n) == SubSeq(s, 1, IF Len(s) < n THEN Len(s) ELSE n)
\* Array.prototype.slice(-n).
SliceLast(s, n) == SubSeq(s, IF Len(s) > n THEN Len(s) - n + 1 ELSE 1, Len(s))

\* ------------------------------------------------------------------------
\* Library layer: JavaScript values
\* ------------------------------------------------------------------------

\* The value undefined where a string is expected, and where a number is.
Undefined == <<"<undefined>">>
Missing == 0 - 1

\* A property that holds an array, holds something else, or is absent.
Arr(items) == [kind |-> "array", items |-> items]
NotArr == [kind |-> "other", items |-> <<>>]
Absent == [kind |-> "undefined", items |-> <<>>]

\* Array.isArray(v); v || [] for a property v of a parsed reply.
IsArray(v) == v.kind = "array"
Truthy(v) == v.kind # "undefined"
OrEmpty(v) == IF Truthy(v) THEN v ELSE Arr(<<>>)

\* A link object {label, url}; the array element null.
Link(label, url) == [label |-> label, url |-> url]
NullLink == Link("<null>", "<null>")

\* ------------------------------------------------------------------------
\* Library layer: JSON text.  A text is a sequence of tokens: the braces
\* and brackets, white space, a markdown fence, a word of prose, a scalar
\* literal, or one "key":value member of an object.
\* ------------------------------------------------------------------------

LoginUrl == "https://divyangparbhani.altwise.in/home/login"
RegisterUrl == "https://divyangparbhani.altwise.in/home/newregistration"
ContactUrl == "https://divyangparbhani.altwise.in/home/contact"
InventedUrl == "https://example.org/invented"
LoginLabel == "Login to Divyang Portal"
RegisterLabel == "Register on Divyang Portal"
ContactLabel == "Contact Support"

ScalarTokens == {"n:42", "null", "s:text"}
MemberTokens == {"m:hi", "m:", "l:login", "l:evil", "l:label", "l:null",
                 "l:str", "y:one", "y:none", "a:25", "a:70", "p:60", "d:deaf"}
SpaceTokens == {" ", "\n"}

\* A scheme object as the model may echo it in "yojanas".
EchoedScheme ==
    [YojanaId |-> 99, Start_Age |-> 0, UpTo_Age |-> 100, pct |-> 0,
     tblDivyangTypes |-> Undefined, DisabilityType |-> Undefined,
     PublishedBy |-> Undefined, YojanaName |-> Undefined,
     Description |-> Undefined, Disability |-> Undefined]

\* The parsed value of a JSON text.  t is the JSON type; the other fields are
\* the properties the handlers read (absent ones are undefined / falsy).
JValue(t) ==
    [t |-> t, message |-> Undefined, links |-> Absent, yojanas |-> Absent,
     age |-> 0, disabilityType |-> <<>>, percentage |-> 0]

\* The object {message: text}.
MessageOnly(text) == [JValue("object") EXCEPT !.message = text]

\* Adds one "key":value member to an object (a later key overrides).
WithMember(o, tok) ==
    CASE tok = "m:hi"    -> [o EXCEPT !.message = <<"h", "i">>]
      [] tok = "m:"      -> [o EXCEPT !.message = <<>>]
      [] tok = "l:login" -> [o EXCEPT !.links = Arr(<<Link(LoginLabel, LoginUrl)>>)]
      [] tok = "l:evil"  -> [o EXCEPT !.links =
                               Arr(<<Link("Click here", InventedUrl),
                                     Link(RegisterLabel, RegisterUrl)>>)]
      [] tok = "l:label" -> [o EXCEPT !.links = Arr(<<Link(LoginLabel, InventedUrl)>>)]
      [] tok = "l:null"  -> [o EXCEPT !.links = Arr(<<NullLink>>)]
      [] tok = "l:str"   -> [o EXCEPT !.links = NotArr]
      [] tok = "y:one"   -> [o EXCEPT !.yojanas = Arr(<<EchoedScheme>>)]
      [] tok = "y:none"  -> [o EXCEPT !.yojanas = Arr(<<>>)]
      [] tok = "a:25"    -> [o EXCEPT !.age = 25]
      [] tok = "a:70"    -> [o EXCEPT !.age = 70]
      [] tok = "p:60"    -> [o EXCEPT !.percentage = 60]
      [] tok = "d:deaf"  -> [o EXCEPT !.disabilityType = <<"d", "e", "a", "f">>]
      [] OTHER           -> o

RECURSIVE BuildObject(_, _)
BuildObject(o, toks) ==
    IF toks = <<>> THEN o
    ELSE BuildObject(IF Head(toks) \in MemberTokens THEN WithMember(o, Head(toks)) ELSE o,
                     Tail(toks))

\* JSON.parse: ok = FALSE stands for the SyntaxError it throws.
JSONparse(text) ==
    LET Parse(t, inner) ==
            IF Len(t) = 1 /\ t[1] \in ScalarTokens
            THEN [ok |-> TRUE,
                  val |-> JValue(CASE t[1] = "n:42" -> "number"
                                   [] t[1] = "null" -> "null"
                                   [] OTHER -> "string")]
            ELSE IF t = <<"[", "]">>
            THEN [ok |-> TRUE, val |-> JValue("array")]
            ELSE IF /\ Len(t) >= 2
                    /\ t[1] = "{"
                    /\ t[Len(t)] = "}"
                    /\ \A i \in 1..Len(inner) : inner[i] \in MemberTokens \cup SpaceTokens
            THEN [ok |-> TRUE, val |-> BuildObject(JValue("object"), inner)]
            ELSE [ok |-> FALSE, val |-> JValue("undefined")]
        Trimmed(t) == Parse(t, SubSeq(t, 2, Len(t) - 1))
    IN  Trimmed(Trim(text))

\* text.replace(/<fence>json\n?/g, '') and text.replace(/<fence>\n?/g, ''),
\* where <fence> is the three-backquote markdown fence.
RECURSIVE RemoveFence(_, _)
RemoveFence(text, fence) ==
    IF text = <<>> THEN <<>>
    ELSE IF Head(text) = fence
         THEN IF Len(text) >= 2 /\ text[2] = "\n"
              THEN RemoveFence(Tail(Tail(text)), fence)
              ELSE RemoveFence(Tail(text), fence)
         ELSE <<Head(text)>> \o RemoveFence(Tail(text), fence)
StripFences(text) == RemoveFence(RemoveFence(text, "<fence-json>"), "<fence>")

\* text.match(/\{[\s\S]*\}/): from the first "{" to the last "}" after it;
\* <<>> stands for null (no match).
BraceMatch(text) ==
    LET Closed(first, closes) ==
            IF closes = {} THEN <<>> ELSE SubSeq(text, first, MaxOf(closes))
        From(first) == Closed(first, {j \in 1..Len(text) : text[j] = "}" /\ j > first})
        Opened(opens) == IF opens = {} THEN <<>> ELSE From(MinOf(opens))
    IN  Opened({i \in 1..Len(text) : text[i] = "{"})

\* coerceGeminiJson: strict parse, else the brace-delimited substring, else
\* {message: text}.
coerceGeminiJson(text) ==
    LET Second(second) == IF second.ok THEN second.val ELSE MessageOnly(text)
        Loose(match) == IF match # <<>> THEN Second(JSONparse(match))
                        ELSE MessageOnly(text)
        Strict(strict) == IF strict.ok THEN strict.val ELSE Loose(BraceMatch(text))
    IN  Strict(JSONparse(text))

\* ------------------------------------------------------------------------
\* Keyword tables.  Devanagari keywords are written in Latin transliteration.
\* ------------------------------------------------------------------------

\* disabilityMap of detectDisability in part_005 (in order; first match wins).
disabilityMap005 ==
    <<
       [type |-> <<"b","l","i","n","d","n","e","s","s">>,
        keywords |-> << <<"p","u","r","n","a","t","a","h"," ","a","n","d","h">>,
                      <<"b","l","i","n","d","n","e","s","s">>,
                      <<"b","l","i","n","d">> >>],
       [type |-> <<"l","o","w"," ","v","i","s","i","o","n">>,
        keywords |-> << <<"a","n","s","h","a","t","a","h"," ","a","n","d","h">>,
                      <<"l","o","w"," ","v","i","s","i","o","n">>,
                      <<"p","a","r","t","i","a","l","l","y"," ","b","l","i","n","d">> >>],
       [type |-> <<"h","e","a","r","i","n","g"," ","i","m","p","a","i","r","m","e","n","t">>,
        keywords |-> << <<"k","a","r","n","a","b","a","d","h","i","r">>,
                      <<"h","e","a","r","i","n","g"," ","i","m","p","a","i","r","m","e","n","t">>,
                      <<"d","e","a","f">> >>],
       [type |-> <<"s","p","e","e","c","h"," ","a","n","d"," ","l","a","n","g","u","a","g","e"," ","d","i","s","a","b","i","l","i","t","y">>,
        keywords |-> << <<"v","a","c","h","a"," ","d","o","s","h">>,
                      <<"s","p","e","e","c","h"," ","d","i","s","a","b","i","l","i","t","y">>,
                      <<"l","a","n","g","u","a","g","e"," ","d","i","s","a","b","i","l","i","t","y">> >>],
       [type |-> <<"l","o","c","o","m","o","t","o","r"," ","d","i","s","a","b","i","l","i","t","y">>,
        keywords |-> << <<"a","s","t","h","i","v","y","a","n","g">>,
                      <<"l","o","c","o","m","o","t","o","r"," ","d","i","s","a","b","i","l","i","t","y">>,
                      <<"p","h","y","s","i","c","a","l"," ","d","i","s","a","b","i","l","i","t","y">> >>],
       [type |-> <<"m","e","n","t","a","l"," ","i","l","l","n","e","s","s">>,
        keywords |-> << <<"m","a","n","s","i","k"," ","a","j","a","r">>,
                      <<"m","e","n","t","a","l"," ","i","l","l","n","e","s","s">> >>],
       [type |-> <<"l","e","a","r","n","i","n","g"," ","d","i","s","a","b","i","l","i","t","y">>,
        keywords |-> << <<"a","d","h","y","a","y","a","n"," ","a","k","s","h","a","m">>,
                      <<"l","e","a","r","n","i","n","g"," ","d","i","s","a","b","i","l","i","t","y">> >>],
       [type |-> <<"c","e","r","e","b","r","a","l"," ","p","a","l","s","y">>,
        keywords |-> << <<"m","e","n","d","u","c","h","a"," ","p","a","k","s","h","a","g","h","a","t">>,
                      <<"c","e","r","e","b","r","a","l"," ","p","a","l","s","y">> >>],
       [type |-> <<"a","u","t","i","s","m">>,
        keywords |-> << <<"s","w","a","m","a","g","n","a">>,
                      <<"a","u","t","i","s","m">> >>],
       [type |-> <<"m","u","l","t","i","p","l","e"," ","d","i","s","a","b","i","l","i","t","y">>,
        keywords |-> << <<"b","a","h","u","v","i","k","l","a","n","g">>,
                      <<"m","u","l","t","i","p","l","e"," ","d","i","s","a","b","i","l","i","t","y">> >>],
       [type |-> <<"l","e","p","r","o","s","y"," ","c","u","r","e","d">>,
        keywords |-> << <<"k","u","s","h","t","h","a","r","o","g">>,
                      <<"l","e","p","r","o","s","y"," ","c","u","r","e","d">> >>],
       [type |-> <<"d","w","a","r","f","i","s","m">>,
        keywords |-> << <<"b","u","t","k","e","p","a","n","a">>,
                      <<"d","w","a","r","f","i","s","m">> >>],
       [type |-> <<"i","n","t","e","l","l","e","c","t","u","a","l"," ","d","i","s","a","b","i","l","i","t","y">>,
        keywords |-> << <<"b","a","u","d","d","h","i","k"," ","a","k","s","h","a","m","a","t","a">>,
                      <<"i","n","t","e","l","l","e","c","t","u","a","l"," ","d","i","s","a","b","i","l","i","t","y">> >>],
       [type |-> <<"m","u","s","c","u","l","a","r"," ","d","i","s","a","b","i","l","i","t","y">>,
        keywords |-> << <<"m","a","s","h","p","e","s","h","i","y"," ","k","s","h","a","r","a","n">>,
                      <<"m","u","s","c","u","l","a","r"," ","d","i","s","a","b","i","l","i","t","y">>,
                      <<"m","u","s","c","u","l","a","r"," ","d","y","s","t","r","o","p","h","y">> >>],
       [type |-> <<"c","h","r","o","n","i","c"," ","n","e","u","r","o","l","o","g","i","c","a","l"," ","c","o","n","d","i","t","i","o","n","s">>,
        keywords |-> << <<"m","a","j","j","a","s","a","n","s","t","h","e"," ","t","i","v","r","a"," ","a","j","a","r">>,
                      <<"c","h","r","o","n","i","c"," ","n","e","u","r","o","l","o","g","i","c","a","l"," ","c","o","n","d","i","t","i","o","n","s">> >>],
       [type |-> <<"m","u","l","t","i","p","l","e"," ","s","c","l","e","r","o","s","i","s">>,
        keywords |-> << <<"m","a","l","t","i","p","a","l"," ","s","k","l","e","r","o","s","i","s">>,
                      <<"m","u","l","t","i","p","l","e"," ","s","c","l","e","r","o","s","i","s">> >>],
       [type |-> <<"t","h","a","l","a","s","s","e","m","i","a">>,
        keywords |-> << <<"t","h","a","l","e","s","i","m","i","y","a">>,
                      <<"t","h","a","l","a","s","s","e","m","i","a">> >>],
       [type |-> <<"h","e","m","o","p","h","i","l","i","a">>,
        keywords |-> << <<"a","d","h","i","k"," ","r","a","k","t","a","s","t","r","a","v">>,
                      <<"h","e","m","o","p","h","i","l","i","a">> >>],
       [type |-> <<"s","i","c","k","l","e"," ","c","e","l","l"," ","d","i","s","e","a","s","e">>,
        keywords |-> << <<"s","i","k","a","l"," ","s","e","l">>,
                      <<"s","i","c","k","l","e"," ","c","e","l","l"," ","d","i","s","e","a","s","e">>,
                      <<"s","i","c","k","l","e"," ","c","e","l","l">> >>],
       [type |-> <<"a","c","i","d"," ","a","t","t","a","c","k"," ","v","i","c","t","i","m">>,
        keywords |-> << <<"a","s","i","d"," ","a","t","a","k">>,
                      <<"a","c","i","d"," ","a","t","t","a","c","k"," ","v","i","c","t","i","m">>,
                      <<"a","c","i","d"," ","a","t","t","a","c","k">> >>],
       [type |-> <<"p","a","r","k","i","n","s","o","n","'","s"," ","d","i","s","e","a","s","e">>,
        keywords |-> << <<"k","a","m","p","a","v","a","t"," ","r","o","g">>,
                      <<"p","a","r","k","i","n","s","o","n","'","s"," ","d","i","s","e","a","s","e">>,
                      <<"p","a","r","k","i","n","s","o","n">> >>]
    >>

\* disabilityMap of parseStructuredQuery in part_005: the same table except
\* that the second keyword of blindness is 'blankness'.
disabilityMapStructured005 ==
    <<
       [type |-> <<"b","l","i","n","d","n","e","s","s">>,
        keywords |-> << <<"p","u","r","n","a","t","a","h"," ","a","n","d","h">>,
                      <<"b","l","a","n","k","n","e","s","s">>,
                      <<"b","l","i","n","d">> >>],
       [type |-> <<"l","o","w"," ","v","i","s","i","o","n">>,
        keywords |-> << <<"a","n","s","h","a","t","a","h"," ","a","n","d","h">>,
                      <<"l","o","w"," ","v","i","s","i","o","n">>,
                      <<"p","a","r","t","i","a","l","l","y"," ","b","l","i","n","d">> >>],
       [type |-> <<"h","e","a","r","i","n","g"," ","i","m","p","a","i","r","m","e","n","t">>,
        keywords |-> << <<"k","a","r","n","a","b","a","d","h","i","r">>,
                      <<"h","e","a","r","i","n","g"," ","i","m","p","a","i","r","m","e","n","t">>,
                      <<"d","e","a","f">> >>],
       [type |-> <<"s","p","e","e","c","h"," ","a","n","d"," ","l","a","n","g","u","a","g","e"," ","d","i","s","a","b","i","l","i","t","y">>,
        keywords |-> << <<"v","a","c","h","a"," ","d","o","s","h">>,
                      <<"s","p","e","e","c","h"," ","d","i","s","a","b","i","l","i","t","y">>,
                      <<"l","a","n","g","u","a","g","e"," ","d","i","s","a","b","i","l","i","t","y">> >>],
       [type |-> <<"l","o","c","o","m","o","t","o","r"," ","d","i","s","a","b","i","l","i","t","y">>,
        keywords |-> << <<"a","s","t","h","i","v","y","a","n","g">>,
                      <<"l","o","c","o","m","o","t","o","r"," ","d","i","s","a","b","i","l","i","t","y">>,
                      <<"p","h","y","s","i","c","a","l"," ","d","i","s","a","b","i","l","i","t","y">> >>],
       [type |-> <<"m","e","n","t","a","l"," ","i","l","l","n","e","s","s">>,
        keywords |-> << <<"m","a","n","s","i","k"," ","a","j","a","r">>,
                      <<"m","e","n","t","a","l"," ","i","l","l","n","e","s","s">> >>],
       [type |-> <<"l","e","a","r","n","i","n","g"," ","d","i","s","a","b","i","l","i","t","y">>,
        keywords |-> << <<"a","d","h","y","a","y","a","n"," ","a","k","s","h","a","m">>,
                      <<"l","e","a","r","n","i","n","g"," ","d","i","s","a","b","i","l","i","t","y">> >>],
       [type |-> <<"c","e","r","e","b","r","a","l"," ","p","a","l","s","y">>,
        keywords |-> << <<"m","e","n","d","u","c","h","a"," ","p","a","k","s","h","a","g","h","a","t">>,
                      <<"c","e","r","e","b","r","a","l"," ","p","a","l","s","y">> >>],
       [type |-> <<"a","u","t","i","s","m">>,
        keywords |-> << <<"s","w","a","m","a","g","n","a">>,
                      <<"a","u","t","i","s","m">> >>],
       [type |-> <<"m","u","l","t","i","p","l","e"," ","d","i","s","a","b","i","l","i","t","y">>,
        keywords |-> << <<"b","a","h","u","v","i","k","l","a","n","g">>,
                      <<"m","u","l","t","i","p","l","e"," ","d","i","s","a","b","i","l","i","t","y">> >>],
       [type |-> <<"l","e","p","r","o","s","y"," ","c","u","r","e","d">>,
        keywords |-> << <<"k","u","s","h","t","h","a","r","o","g">>,
                      <<"l","e","p","r","o","s","y"," ","c","u","r","e","d">> >>],
       [type |-> <<"d","w","a","r","f","i","s","m">>,
        keywords |-> << <<"b","u","t","k","e","p","a","n","a">>,
                      <<"d","w","a","r","f","i","s","m">> >>],
       [type |-> <<"i","n","t","e","l","l","e","c","t","u","a","l"," ","d","i","s","a","b","i","l","i","t","y">>,
        keywords |-> << <<"b","a","u","d","d","h","i","k"," ","a","k","s","h","a","m","a","t","a">>,
                      <<"i","n","t","e","l","l","e","c","t","u","a","l"," ","d","i","s","a","b","i","l","i","t","y">> >>],
       [type |-> <<"m","u","s","c","u","l","a","r"," ","d","i","s","a","b","i","l","i","t","y">>,
        keywords |-> << <<"m","a","s","h","p","e","s","h","i","y"," ","k","s","h","a","r","a","n">>,
                      <<"m","u","s","c","u","l","a","r"," ","d","i","s","a","b","i","l","i","t","y">>,
                      <<"m","u","s","c","u","l","a","r"," ","d","y","s","t","r","o","p","h","y">> >>],
       [type |-> <<"c","h","r","o","n","i","c"," ","n","e","u","r","o","l","o","g","i","c","a","l"," ","c","o","n","d","i","t","i","o","n","s">>,
        keywords |-> << <<"m","a","j","j","a","s","a","n","s","t","h","e"," ","t","i","v","r","a"," ","a","j","a","r">>,
                      <<"c","h","r","o","n","i","c"," ","n","e","u","r","o","l","o","g","i","c","a","l"," ","c","o","n","d","i","t","i","o","n","s">> >>],
       [type |-> <<"m","u","l","t","i","p","l","e"," ","s","c","l","e","r","o","s","i","s">>,
        keywords |-> << <<"m","a","l","t","i","p","a","l"," ","s","k","l","e","r","o","s","i","s">>,
                      <<"m","u","l","t","i","p","l","e"," ","s","c","l","e","r","o","s","i","s">> >>],
       [type |-> <<"t","h","a","l","a","s","s","e","m","i","a">>,
        keywords |-> << <<"t","h","a","l","e","s","i","m","i","y","a">>,
                      <<"t","h","a","l","a","s","s","e","m","i","a">> >>],
       [type |-> <<"h","e","m","o","p","h","i","l","i","a">>,
        keywords |-> << <<"a","d","h","i","k"," ","r","a","k","t","a","s","t","r","a","v">>,
                      <<"h","e","m","o","p","h","i","l","i","a">> >>],
       [type |-> <<"s","i","c","k","l","e"," ","c","e","l","l"," ","d","i","s","e","a","s","e">>,
        keywords |-> << <<"s","i","k","a","l"," ","s","e","l">>,
                      <<"s","i","c","k","l","e"," ","c","e","l","l"," ","d","i","s","e","a","s","e">>,
                      <<"s","i","c","k","l","e"," ","c","e","l","l">> >>],
       [type |-> <<"a","c","i","d"," ","a","t","t","a","c","k"," ","v","i","c","t","i","m">>,
        keywords |-> << <<"a","s","i","d"," ","a","t","a","k">>,
                      <<"a","c","i","d"," ","a","t","t","a","c","k"," ","v","i","c","t","i","m">>,
                      <<"a","c","i","d"," ","a","t","t","a","c","k">> >>],
       [type |-> <<"p","a","r","k","i","n","s","o","n","'","s"," ","d","i","s","e","a","s","e">>,
        keywords |-> << <<"k","a","m","p","a","v","a","t"," ","r","o","g">>,
                      <<"p","a","r","k","i","n","s","o","n","'","s"," ","d","i","s","e","a","s","e">>,
                      <<"p","a","r","k","i","n","s","o","n">> >>]
    >>

\* disabilityTypeMap of part_001 (in order; first match wins).
disabilityTypeMap ==
    <<
       [type |-> <<"p","u","r","n","a","t","a","h"," ","a","n","d","h"," ","(","B","l","i","n","d","n","e","s","s",")">>,
        keywords |-> << <<"p","u","r","n","a","t","a","h"," ","a","n","d","h">>,
                      <<"b","l","i","n","d","n","e","s","s">>,
                      <<"b","l","i","n","d">> >>],
       [type |-> <<"a","n","s","h","a","t","a","h"," ","a","n","d","h"," ","(","L","o","w"," ","V","i","s","i","o","n",")">>,
        keywords |-> << <<"a","n","s","h","a","t","a","h"," ","a","n","d","h">>,
                      <<"l","o","w"," ","v","i","s","i","o","n">>,
                      <<"p","a","r","t","i","a","l"," ","b","l","i","n","d">> >>],
       [type |-> <<"k","a","r","n","a","b","a","d","h","i","r"," ","(","H","e","a","r","i","n","g"," ","I","m","p","a","i","r","m","e","n","t",")">>,
        keywords |-> << <<"k","a","r","n","a","b","a","d","h","i","r">>,
                      <<"h","e","a","r","i","n","g">>,
                      <<"d","e","a","f">> >>],
       [type |-> <<"v","a","c","h","a"," ","d","o","s","h"," ","(","S","p","e","e","c","h"," ","a","n","d"," ","L","a","n","g","u","a","g","e"," ","D","i","s","a","b","i","l","i","t","y",")">>,
        keywords |-> << <<"v","a","c","h","a"," ","d","o","s","h">>,
                      <<"s","p","e","e","c","h">>,
                      <<"l","a","n","g","u","a","g","e">> >>],
       [type |-> <<"a","s","t","h","i","v","y","a","n","g"," ","(","L","o","c","o","m","o","t","o","r"," ","D","i","s","a","b","i","l","i","t","y",")">>,
        keywords |-> << <<"a","s","t","h","i","v","y","a","n","g">>,
                      <<"l","o","c","o","m","o","t","o","r">>,
                      <<"p","h","y","s","i","c","a","l">> >>],
       [type |-> <<"m","a","n","s","i","k"," ","a","j","a","r"," ","(","M","e","n","t","a","l"," ","I","l","l","n","e","s","s",")">>,
        keywords |-> << <<"m","a","n","s","i","k"," ","a","j","a","r">>,
                      <<"m","e","n","t","a","l"," ","i","l","l","n","e","s","s">>,
                      <<"m","e","n","t","a","l">> >>],
       [type |-> <<"a","d","h","y","a","y","a","n"," ","a","k","s","h","a","m"," ","(","L","e","a","r","n","i","n","g"," ","D","i","s","a","b","i","l","i","t","y",")">>,
        keywords |-> << <<"a","d","h","y","a","y","a","n"," ","a","k","s","h","a","m">>,
                      <<"l","e","a","r","n","i","n","g"," ","d","i","s","a","b","i","l","i","t","y">>,
                      <<"l","e","a","r","n","i","n","g">> >>],
       [type |-> <<"m","e","n","d","u","c","h","a"," ","p","a","k","s","h","a","g","h","a","t"," ","(","C","e","r","e","b","r","a","l"," ","P","a","l","s","y",")">>,
        keywords |-> << <<"m","e","n","d","u","c","h","a"," ","p","a","k","s","h","a","g","h","a","t">>,
                      <<"c","e","r","e","b","r","a","l"," ","p","a","l","s","y">>,
                      <<"c","e","r","e","b","r","a","l">> >>],
       [type |-> <<"s","w","a","m","a","g","n","a"," ","(","A","u","t","i","s","m",")">>,
        keywords |-> << <<"s","w","a","m","a","g","n","a">>,
                      <<"a","u","t","i","s","m">>,
                      <<"a","u","t","i","s","t","i","c">> >>],
       [type |-> <<"b","a","h","u","v","i","k","l","a","n","g"," ","(","M","u","l","t","i","p","l","e"," ","D","i","s","a","b","i","l","i","t","y",")">>,
        keywords |-> << <<"b","a","h","u","v","i","k","l","a","n","g">>,
                      <<"m","u","l","t","i","p","l","e"," ","d","i","s","a","b","i","l","i","t","y">>,
                      <<"m","u","l","t","i","p","l","e">> >>],
       [type |-> <<"k","u","s","h","t","h","a","r","o","g"," ","(","L","e","p","r","o","s","y"," ","C","u","r","e","d"," ","P","e","r","s","o","n","s",")">>,
        keywords |-> << <<"k","u","s","h","t","h","a","r","o","g">>,
                      <<"l","e","p","r","o","s","y">>,
                      <<"l","e","p","r","o","s","y"," ","c","u","r","e","d">> >>],
       [type |-> <<"b","u","t","k","e","p","a","n","a"," ","(","D","w","a","r","f","i","s","m",")">>,
        keywords |-> << <<"b","u","t","k","e","p","a","n","a">>,
                      <<"d","w","a","r","f","i","s","m">>,
                      <<"d","w","a","r","f">> >>],
       [type |-> <<"b","a","u","d","d","h","i","k"," ","a","k","s","h","a","m","a","t","a"," ","(","I","n","t","e","l","l","e","c","t","u","a","l"," ","D","i","s","a","b","i","l","i","t","y",")">>,
        keywords |-> << <<"b","a","u","d","d","h","i","k"," ","a","k","s","h","a","m","a","t","a">>,
                      <<"i","n","t","e","l","l","e","c","t","u","a","l"," ","d","i","s","a","b","i","l","i","t","y">>,
                      <<"i","n","t","e","l","l","e","c","t","u","a","l">> >>],
       [type |-> <<"m","a","s","h","p","e","s","h","i","y"," ","k","s","h","a","r","a","n"," ","(","M","u","s","c","u","l","a","r"," ","D","i","s","a","b","i","l","i","t","y",")">>,
        keywords |-> << <<"m","a","s","h","p","e","s","h","i","y"," ","k","s","h","a","r","a","n">>,
                      <<"m","u","s","c","u","l","a","r"," ","d","i","s","a","b","i","l","i","t","y">>,
                      <<"m","u","s","c","u","l","a","r">> >>],
       [type |-> <<"m","a","j","j","a","s","a","n","s","t","h","e"," ","t","i","v","r","a"," ","a","j","a","r"," ","(","N","e","u","r","o","l","o","g","i","c","a","l"," ","C","o","n","d","i","t","i","o","n","s",")">>,
        keywords |-> << <<"m","a","j","j","a","s","a","n","s","t","h","e"," ","t","i","v","r","a"," ","a","j","a","r">>,
                      <<"n","e","u","r","o","l","o","g","i","c","a","l">>,
                      <<"n","e","u","r","o","l","o","g","i","c","a","l"," ","c","o","n","d","i","t","i","o","n","s">> >>],
       [type |-> <<"m","a","l","t","i","p","a","l"," ","s","k","l","e","r","o","s","i","s","(","M","u","l","t","i","p","l","e"," ","s","c","l","e","r","o","s","i","s",")">>,
        keywords |-> << <<"m","a","l","t","i","p","a","l"," ","s","k","l","e","r","o","s","i","s">>,
                      <<"m","u","l","t","i","p","l","e"," ","s","c","l","e","r","o","s","i","s">>,
                      <<"s","c","l","e","r","o","s","i","s">> >>],
       [type |-> <<"t","h","a","l","e","s","i","m","i","y","a"," ","(","T","h","a","l","a","s","s","e","m","i","a",")">>,
        keywords |-> << <<"t","h","a","l","e","s","i","m","i","y","a">>,
                      <<"t","h","a","l","a","s","s","e","m","i","a">>,
                      <<"t","h","a","l","a","s","s","e","m","i","c">> >>],
       [type |-> <<"a","d","h","i","k"," ","r","a","k","t","a","s","t","r","a","v"," ","(","H","e","m","o","p","h","i","l","i","a",")">>,
        keywords |-> << <<"a","d","h","i","k"," ","r","a","k","t","a","s","t","r","a","v">>,
                      <<"h","e","m","o","p","h","i","l","i","a">>,
                      <<"b","l","e","e","d","i","n","g">> >>],
       [type |-> <<"s","i","k","a","l"," ","s","e","l"," ","(","S","i","c","k","l","e"," ","C","e","l","l"," ","D","i","s","e","a","s","e",")">>,
        keywords |-> << <<"s","i","k","a","l"," ","s","e","l">>,
                      <<"s","i","c","k","l","e"," ","c","e","l","l">>,
                      <<"s","i","c","k","l","e">> >>],
       [type |-> <<"a","s","i","d"," ","a","t","a","k"," ","(","A","c","i","d"," ","A","t","t","a","c","k"," ","V","i","c","t","i","m",")">>,
        keywords |-> << <<"a","s","i","d"," ","a","t","a","k">>,
                      <<"a","c","i","d"," ","a","t","t","a","c","k">>,
                      <<"a","c","i","d">> >>],
       [type |-> <<"k","a","m","p","a","v","a","t"," ","r","o","g"," ","(","P","a","r","k","i","n","s","o","n","'","s"," ","D","i","s","e","a","s","e",")">>,
        keywords |-> << <<"k","a","m","p","a","v","a","t"," ","r","o","g">>,
                      <<"p","a","r","k","i","n","s","o","n">>,
                      <<"p","a","r","k","i","n","s","o","n","s">> >>]
    >>

\* disabilityKeywords of detectDisabilityType in part_003.
disabilityKeywords ==
    <<
       [type |-> <<"v","i","s","i","o","n">>,
        keywords |-> << <<"b","l","i","n","d">>,
                      <<"b","l","i","n","d","n","e","s","s">>,
                      <<"v","i","s","i","o","n">>,
                      <<"v","i","s","u","a","l">>,
                      <<"s","i","g","h","t">>,
                      <<"a","n","d","h">>,
                      <<"d","r","i","s","h","t","i">>,
                      <<"n","e","t","r","a">> >>],
       [type |-> <<"h","e","a","r","i","n","g">>,
        keywords |-> << <<"d","e","a","f">>,
                      <<"h","e","a","r","i","n","g">>,
                      <<"a","u","d","i","o">>,
                      <<"e","a","r">>,
                      <<"k","a","r","n","a","b","a","d","h","i","r">>,
                      <<"s","h","r","a","v","a","n">>,
                      <<"k","a","n">> >>],
       [type |-> <<"p","h","y","s","i","c","a","l">>,
        keywords |-> << <<"p","h","y","s","i","c","a","l">>,
                      <<"l","o","c","o","m","o","t","o","r">>,
                      <<"m","o","b","i","l","i","t","y">>,
                      <<"l","i","m","b">>,
                      <<"a","s","t","h","i","v","y","a","n","g">>,
                      <<"s","h","a","r","i","r","i","k">> >>],
       [type |-> <<"m","e","n","t","a","l">>,
        keywords |-> << <<"m","e","n","t","a","l">>,
                      <<"i","n","t","e","l","l","e","c","t","u","a","l">>,
                      <<"c","o","g","n","i","t","i","v","e">>,
                      <<"b","r","a","i","n">>,
                      <<"m","a","n","s","i","k">>,
                      <<"b","a","u","d","d","h","i","k">> >>],
       [type |-> <<"s","p","e","e","c","h">>,
        keywords |-> << <<"s","p","e","e","c","h">>,
                      <<"l","a","n","g","u","a","g","e">>,
                      <<"s","p","e","a","k","i","n","g">>,
                      <<"v","a","c","h","a">>,
                      <<"b","h","a","s","h","a">> >>]
    >>

\* categoryKeywords of detectCategory in part_003.
categoryKeywords ==
    <<
       [type |-> <<"e","d","u","c","a","t","i","o","n">>,
        keywords |-> << <<"e","d","u","c","a","t","i","o","n">>,
                      <<"s","t","u","d","y">>,
                      <<"s","c","h","o","o","l">>,
                      <<"c","o","l","l","e","g","e">>,
                      <<"l","e","a","r","n","i","n","g">>,
                      <<"s","h","i","k","s","h","a","n">>,
                      <<"a","b","h","y","a","s">> >>],
       [type |-> <<"e","m","p","l","o","y","m","e","n","t">>,
        keywords |-> << <<"j","o","b">>,
                      <<"e","m","p","l","o","y","m","e","n","t">>,
                      <<"w","o","r","k">>,
                      <<"c","a","r","e","e","r">>,
                      <<"b","u","s","i","n","e","s","s">>,
                      <<"r","o","j","g","a","r">>,
                      <<"k","a","m">> >>],
       [type |-> <<"h","e","a","l","t","h","c","a","r","e">>,
        keywords |-> << <<"h","e","a","l","t","h">>,
                      <<"m","e","d","i","c","a","l">>,
                      <<"t","r","e","a","t","m","e","n","t">>,
                      <<"t","h","e","r","a","p","y">>,
                      <<"a","r","o","g","y","a">>,
                      <<"v","a","i","d","y","a","k","i","y">> >>],
       [type |-> <<"f","i","n","a","n","c","i","a","l">>,
        keywords |-> << <<"m","o","n","e","y">>,
                      <<"f","i","n","a","n","c","i","a","l">>,
                      <<"p","e","n","s","i","o","n">>,
                      <<"a","l","l","o","w","a","n","c","e">>,
                      <<"a","r","t","h","i","k">>,
                      <<"p","e","n","s","h","a","n">> >>],
       [type |-> <<"s","o","c","i","a","l">>,
        keywords |-> << <<"s","o","c","i","a","l">>,
                      <<"m","a","r","r","i","a","g","e">>,
                      <<"f","a","m","i","l","y">>,
                      <<"s","a","m","a","j","i","k">>,
                      <<"v","i","v","a","h">> >>]
    >>


\* ------------------------------------------------------------------------
\* Scheme (yojana) records and the scheme filters of the rule-based variants
\* ------------------------------------------------------------------------

\* null as the value of a slot or of a detector; a truthy number or string.
Null == Missing
TruthyNum(n) == n # Missing /\ n # 0
TruthyStr(s) == s # Undefined /\ s # <<>>

\* One record of the scheme source.  pct is tblYojanaDivyangTypePercentages;
\* Disability is the property that part_005 adds to what it returns.
Scheme(id, name, start, upto, pct, tbl, dtype, pub) ==
    [YojanaId |-> id, YojanaName |-> name, Description |-> Undefined,
     Start_Age |-> start, UpTo_Age |-> upto, pct |-> pct,
     tblDivyangTypes |-> tbl, DisabilityType |-> dtype,
     PublishedBy |-> pub, Disability |-> Undefined]

\* The result of a computation that may throw.
Returned(v) == [threw |-> FALSE, val |-> v]
Threw == [threw |-> TRUE, val |-> <<>>]

\* detectAge without its range test: the number of the leftmost match of
\* /\b(\d{1,2})\b/ as parseInt gives it.
detectAgeUnchecked(msg) ==
    LET At(first) == ParseDigits(msg, first, DigitRun(msg, first))
        Leftmost(starts) == IF starts = {} THEN Null ELSE At(MinOf(starts))
    IN  Leftmost({i \in 1..Len(msg) :
                     /\ WordBoundary(msg, i)
                     /\ DigitRun(msg, i) \in {1, 2}
                     /\ WordBoundary(msg, i + DigitRun(msg, i))})

\* detectAge of part_005 and of part_000 (lines 210-217): the leftmost match
\* of /\b(\d{1,2})\b/, accepted when it is between 1 and 100.
detectAge(msg) ==
    LET InRange(age) == IF age >= 1 /\ age <= 100 THEN age ELSE Null
        At(first) == InRange(ParseDigits(msg, first, DigitRun(msg, first)))
        Leftmost(starts) == IF starts = {} THEN Null ELSE At(MinOf(starts))
    IN  Leftmost({i \in 1..Len(msg) :
                     /\ WordBoundary(msg, i)
                     /\ DigitRun(msg, i) \in {1, 2}
                     /\ WordBoundary(msg, i + DigitRun(msg, i))})

\* The first entry of a keyword table one of whose keywords text includes,
\* as the index into the table (0: none).
FirstKeywordEntry(table, text) ==
    LET First(hits) == IF hits = {} THEN 0 ELSE MinOf(hits)
    IN  First({n \in 1..Len(table) :
                  \E k \in 1..Len(table[n].keywords) :
                      Includes(text, ToLower(table[n].keywords[k]))})

\* detectDisability of part_005: the type of the first table entry with a
\* keyword that the lower-cased message includes, else null.
detectDisability005(msg) ==
    LET TypeOf(n) == IF n = 0 THEN Undefined ELSE disabilityMap005[n].type
    IN  TypeOf(FirstKeywordEntry(disabilityMap005, ToLower(msg)))

\* detectDisability of part_000 (lines 220-239).
detectDisability000(msg) ==
    LET Detect(lowerMessage) ==
            IF Includes(lowerMessage, <<"b","l","i","n","d">>) \/ Includes(lowerMessage, <<"v","i","s","i","o","n">>)
                 \/ Includes(lowerMessage, <<"a","n","d","h">>)
            THEN <<"v","i","s","i","o","n">>
            ELSE IF Includes(lowerMessage, <<"d","e","a","f">>) \/ Includes(lowerMessage, <<"h","e","a","r","i","n","g">>)
                      \/ Includes(lowerMessage, <<"k","a","r","n","a","b","a","d","h","i","r">>)
            THEN <<"h","e","a","r","i","n","g">>
            ELSE IF Includes(lowerMessage, <<"p","h","y","s","i","c","a","l">>) \/ Includes(lowerMessage, <<"l","o","c","o","m","o","t","o","r">>)
                      \/ Includes(lowerMessage, <<"a","s","t","h","i","v","y","a","n","g">>)
            THEN <<"p","h","y","s","i","c","a","l">>
            ELSE Undefined
    IN  Detect(ToLower(msg))

\* The match of /<head>(\d+), Disability: (.+?), Percentage: (\d+)/ in msg,
\* with the i flag when ci: the leftmost start, all digits of each number,
\* the shortest middle group.  head is "Age: " in part_005 and
\* "Get Yojana for Age: " in part_000.
StructuredMatch(msg, head, ci) ==
    LET Fold(t) == IF ci THEN ToLower(t) ELSE t
        Found(s, ageAt, disAt, k0, pctAt) ==
            [found |-> TRUE,
             age |-> ParseDigits(s, ageAt, DigitRun(s, ageAt)),
             dis |-> SubSeq(msg, disAt, disAt + k0 - 1),
             pct |-> ParseDigits(s, pctAt, DigitRun(s, pctAt))]
        Match(s, h, mid, last) ==
            LET AgeAt(i) == i + Len(h)
                DisFrom(a) == a + DigitRun(s, a) + Len(mid)
                LensFrom(d) == {k \in 1..Len(s) :
                                   /\ HasAt(s, d + k, last)
                                   /\ DigitRun(s, d + k + Len(last)) >= 1
                                   /\ \A j \in d..(d + k - 1) : s[j] # "\n"}
                StartsAt(a) == /\ DigitRun(s, a) >= 1
                               /\ HasAt(s, a + DigitRun(s, a), mid)
                               /\ LensFrom(DisFrom(a)) # {}
                WithLen(a, d, k0) == Found(s, a, d, k0, d + k0 + Len(last))
                WithDis(a, d) == WithLen(a, d, MinOf(LensFrom(d)))
                WithAge(a) == WithDis(a, DisFrom(a))
                WithStarts(starts) ==
                    IF starts = {}
                    THEN [found |-> FALSE, age |-> Null, dis |-> Undefined, pct |-> Null]
                    ELSE WithAge(AgeAt(MinOf(starts)))
            IN  WithStarts({i \in 1..Len(s) : HasAt(s, i, h) /\ StartsAt(AgeAt(i))})
    IN  Match(Fold(msg), Fold(head),
              Fold(<<","," ","D","i","s","a","b","i","l","i","t","y",":"," ">>),
              Fold(<<","," ","P","e","r","c","e","n","t","a","g","e",":"," ">>))

\* The criteria object handed to a scheme filter; a criterion that is not
\* supplied is undefined.
Criteria(age, disabilityType, percentage, publisher) ==
    [age |-> age, disabilityType |-> disabilityType,
     percentage |-> percentage, publisher |-> publisher]
NoCriteria == Criteria(Null, Undefined, Null, Undefined)

\* parseStructuredQuery of part_005; found = FALSE stands for null.
parseStructuredQuery005(msg) ==
    LET Typed(dis, n) == IF n # 0 THEN disabilityMapStructured005[n].type ELSE dis
        WithInput(m, dis) ==
            [found |-> TRUE,
             criteria |-> Criteria(m.age,
                                   Typed(dis, FirstKeywordEntry(disabilityMapStructured005,
                                                                ToLower(dis))),
                                   m.pct, Undefined)]
        WithMatch(m) == IF ~m.found THEN [found |-> FALSE, criteria |-> NoCriteria]
                        ELSE WithInput(m, Trim(m.dis))
    IN  WithMatch(StructuredMatch(msg, <<"A","g","e",":"," ">>, TRUE))

\* parseStructuredQuery of part_000 (lines 242-255).
parseStructuredQuery000(msg) ==
    LET WithMatch(m) == IF ~m.found THEN [found |-> FALSE, criteria |-> NoCriteria]
                        ELSE [found |-> TRUE,
                              criteria |-> Criteria(m.age, Trim(m.dis), m.pct, Undefined)]
    IN  WithMatch(StructuredMatch(msg, <<"G","e","t"," ","Y","o","j","a","n","a"," ","f","o","r"," ","A","g","e",":"," ">>, FALSE))

\* The text inside the first parentheses of s, as /\((.*?)\)/ captures it;
\* found = FALSE stands for no match.
ParenMatch(s) ==
    LET From(i0) ==
            [found |-> TRUE,
             text |-> SubSeq(s, i0 + 1, MinOf({j \in (i0 + 1)..Len(s) : s[j] = ")"}) - 1)]
        Opened(opens) == IF opens = {} THEN [found |-> FALSE, text |-> <<>>]
                         ELSE From(MinOf(opens))
    IN  Opened({i \in 1..Len(s) :
                   /\ s[i] = "("
                   /\ \E j \in (i + 1)..Len(s) :
                         /\ s[j] = ")"
                         /\ \A k \in (i + 1)..(j - 1) : s[k] # "\n"})

\* The age test without its lower bound: what filterYojanas would compute if
\* it compared the age with UpTo_Age only.
ageMatchUpperOnly005(y, age) ==
    LET end == IF TruthyNum(y.UpTo_Age) THEN y.UpTo_Age ELSE 100
    IN  IF TruthyNum(age) THEN age <= end ELSE TRUE

\* The age test without its guard: what filterYojanas would compute if it
\* compared an age that was not given (null, below every Start_Age).
ageMatchStrict005(y, age) ==
    LET start == IF TruthyNum(y.Start_Age) THEN y.Start_Age ELSE 0
        end == IF TruthyNum(y.UpTo_Age) THEN y.UpTo_Age ELSE 100
    IN  age >= start /\ age <= end

\* The predicate of filterYojanas in part_005 on one scheme.
ageMatch005(y, age) ==
    LET start == IF TruthyNum(y.Start_Age) THEN y.Start_Age ELSE 0
        end == IF TruthyNum(y.UpTo_Age) THEN y.UpTo_Age ELSE 100
    IN  IF TruthyNum(age) THEN age >= start /\ age <= end ELSE TRUE

disabilityMatch005(y, disabilityType) ==
    LET Either(normalizedDisability, wanted) ==
            \/ Includes(normalizedDisability, wanted)
            \/ Includes(wanted, normalizedDisability)
        Normalized(yDis, match) == IF match.found THEN ToLower(match.text) ELSE yDis
        Test(yDis) == Either(Normalized(yDis, ParenMatch(yDis)), ToLower(disabilityType))
    IN  IF TruthyStr(disabilityType)
        THEN Test(ToLower(IF TruthyStr(y.tblDivyangTypes) THEN y.tblDivyangTypes ELSE <<>>))
        ELSE TRUE

percentageMatch005(y, percentage) ==
    IF TruthyNum(percentage) THEN y.pct >= percentage ELSE TRUE

publisherMatch005(y, publisher) ==
    IF TruthyStr(publisher) THEN ToLower(y.PublishedBy) = ToLower(publisher) ELSE TRUE

\* filterYojanas of part_005.  It throws (a TypeError) when a publisher is
\* given and some scheme has no PublishedBy.
filterYojanas005(yojanas, criteria) ==
    LET Keep(y) == /\ ageMatch005(y, criteria.age)
                   /\ disabilityMatch005(y, criteria.disabilityType)
                   /\ percentageMatch005(y, criteria.percentage)
                   /\ publisherMatch005(y, criteria.publisher)
        Tagged(kept) == [i \in 1..Len(kept) |->
                            [kept[i] EXCEPT !.Disability = kept[i].tblDivyangTypes]]
    IN  IF /\ TruthyStr(criteria.publisher)
           /\ \E i \in 1..Len(yojanas) : yojanas[i].PublishedBy = Undefined
        THEN Threw
        ELSE Returned(Tagged(SelectSeq(yojanas, Keep)))

\* The predicate of filterYojanas in part_000 on one scheme.  A comparison
\* with an undefined bound is false; a null age compares as 0.
ageMatch000(y, age) ==
    LET a == IF age = Null THEN 0 ELSE age
    IN  /\ y.Start_Age # Missing /\ a >= y.Start_Age
        /\ y.UpTo_Age # Missing /\ a <= y.UpTo_Age

disabilityMatch000(y, disabilityType) ==
    \/ ~TruthyStr(disabilityType)
    \/ Includes(ToLower(y.DisabilityType), ToLower(disabilityType))
    \/ Includes(ToLower(disabilityType), ToLower(y.DisabilityType))

\* filterYojanas of part_000 (lines 258-272): criteria are age and
\* disabilityType only.  It throws when a disability type is given and some
\* scheme has no DisabilityType property.
filterYojanas000(yojanas, criteria) ==
    LET Keep(y) == /\ ageMatch000(y, criteria.age)
                   /\ disabilityMatch000(y, criteria.disabilityType)
    IN  IF /\ TruthyStr(criteria.disabilityType)
           /\ \E i \in 1..Len(yojanas) : yojanas[i].DisabilityType = Undefined
        THEN Threw
        ELSE Returned(SelectSeq(yojanas, Keep))


\* ------------------------------------------------------------------------
\* Smart pre-filtering of part_001 and part_003
\* ------------------------------------------------------------------------

\* The result of matching one age pattern; found = FALSE stands for null.
NoMatch == [found |-> FALSE, age |-> Null]
Matched(age) == [found |-> TRUE, age |-> age]

\* /\bAge:\s*(\d{1,2})\b/i
AgeColonPattern(msg) ==
    LET In(s) ==
            LET Ends(num, n) == n \in {1, 2} /\ WordBoundary(s, num + n)
                Fits(num) == Ends(num, DigitRun(s, num))
                Number(num) == Matched(ParseDigits(s, num, DigitRun(s, num)))
                Leftmost(starts) ==
                    IF starts = {} THEN NoMatch
                    ELSE Number(SkipSpace(s, MinOf(starts) + 4))
            IN  Leftmost({i \in 1..Len(s) :
                             /\ WordBoundary(s, i)
                             /\ HasAt(s, i, <<"a","g","e",":">>)
                             /\ Fits(SkipSpace(s, i + 4))})
    IN  In(ToLower(msg))

\* /\b(\d{1,2})\s*(?:w1|w2|...)/i for a set of unit words.
DigitsThenWord(msg, words) ==
    LET In(s) ==
            LET Takes(i) == {n \in {1, 2} :
                                /\ DigitRun(s, i) >= n
                                /\ \E w \in words : HasAt(s, SkipSpace(s, i + n), w)}
                Number(i0) == Matched(ParseDigits(s, i0, MaxOf(Takes(i0))))
                Leftmost(starts) ==
                    IF starts = {} THEN NoMatch ELSE Number(MinOf(starts))
            IN  Leftmost({i \in 1..Len(s) :
                             WordBoundary(s, i) /\ IsDigit(s[i]) /\ Takes(i) # {}})
    IN  In(ToLower(msg))

\* /age\s*(?:is\s*)?(\d{1,2})/i
AgeIsPattern(msg) ==
    LET In(s) ==
            LET Pick(afterAge, afterIs) ==
                    IF HasAt(s, afterAge, <<"i","s">>) /\ DigitRun(s, afterIs) >= 1
                    THEN afterIs ELSE afterAge
                From(afterAge) == Pick(afterAge, SkipSpace(s, afterAge + 2))
                NumAt(i) == From(SkipSpace(s, i + 3))
                Number(num) ==
                    Matched(ParseDigits(s, num, IF DigitRun(s, num) >= 2 THEN 2 ELSE 1))
                Leftmost(starts) ==
                    IF starts = {} THEN NoMatch ELSE Number(NumAt(MinOf(starts)))
            IN  Leftmost({i \in 1..Len(s) :
                             HasAt(s, i, <<"a","g","e">>) /\ DigitRun(s, NumAt(i)) >= 1})
    IN  In(ToLower(msg))

\* /vay\s*(\d{1,2})/i (the Marathi word for age).
VayPattern(msg) ==
    LET In(s) ==
            LET NumAt(i) == SkipSpace(s, i + 3)
                Number(num) ==
                    Matched(ParseDigits(s, num, IF DigitRun(s, num) >= 2 THEN 2 ELSE 1))
                Leftmost(starts) ==
                    IF starts = {} THEN NoMatch ELSE Number(NumAt(MinOf(starts)))
            IN  Leftmost({i \in 1..Len(s) :
                             HasAt(s, i, <<"v","a","y">>) /\ DigitRun(s, NumAt(i)) >= 1})
    IN  In(ToLower(msg))

\* /\b(\d{1,2})\b/
BareNumberPattern(msg) ==
    LET Number(i0) == Matched(ParseDigits(msg, i0, DigitRun(msg, i0)))
        Leftmost(starts) == IF starts = {} THEN NoMatch ELSE Number(MinOf(starts))
    IN  Leftmost({i \in 1..Len(msg) :
                     /\ WordBoundary(msg, i)
                     /\ DigitRun(msg, i) \in {1, 2}
                     /\ WordBoundary(msg, i + DigitRun(msg, i))})

\* The first pattern of the list that matches decides: its number when it
\* is between 1 and 100, else null.
FirstAgeMatch(results) ==
    LET InRange(age) == IF age >= 1 /\ age <= 100 THEN age ELSE Null
        First(hits) == IF hits = {} THEN Null ELSE InRange(results[MinOf(hits)].age)
    IN  First({n \in 1..Len(results) : results[n].found})

\* detectAge of part_001.
detectAge001(msg) ==
    FirstAgeMatch(<<AgeColonPattern(msg),
                    DigitsThenWord(msg, {<<"y","e","a","r">>, <<"y","e","a","r","s">>, <<"v","a","r","s","h">>, <<"s","a","l">>}),
                    AgeIsPattern(msg),
                    VayPattern(msg),
                    DigitsThenWord(msg, {<<"v","a","r","s","h","a","c","h","y","a">>}),
                    BareNumberPattern(msg)>>)

\* detectAge of part_003.
detectAge003(msg) ==
    FirstAgeMatch(<<DigitsThenWord(msg, {<<"y","e","a","r">>, <<"y","e","a","r","s">>, <<"v","a","r","s","h">>, <<"s","a","l">>}),
                    AgeIsPattern(msg),
                    VayPattern(msg),
                    DigitsThenWord(msg, {<<"v","a","r","s","h","a","c","h","y","a">>})>>)

\* detectDisabilityType of part_001: the first entry whose exact type the
\* message includes or one of whose keywords the lower-cased message includes.
detectDisabilityType001(msg) ==
    LET Hit(entry, lowerMessage) ==
            \/ Includes(msg, entry.type)
            \/ \E k \in 1..Len(entry.keywords) :
                  Includes(lowerMessage, ToLower(entry.keywords[k]))
        TypeOf(map, hits) == IF hits = {} THEN Undefined ELSE map[MinOf(hits)].type
        Detect(map, lowerMessage) ==
            TypeOf(map, {n \in 1..Len(map) : Hit(map[n], lowerMessage)})
    IN  Detect(disabilityTypeMap, ToLower(msg))

\* detectDisabilityType of part_003.
detectDisabilityType003(msg) ==
    LET TypeOf(map, n) == IF n = 0 THEN Undefined ELSE map[n].type
        Detect(map) == TypeOf(map, FirstKeywordEntry(map, ToLower(msg)))
    IN  Detect(disabilityKeywords)

\* detectCategory of part_003.
detectCategory(msg) ==
    LET TypeOf(map, n) == IF n = 0 THEN Undefined ELSE map[n].type
        Detect(map) == TypeOf(map, FirstKeywordEntry(map, ToLower(msg)))
    IN  Detect(categoryKeywords)

\* s.replace(/^\d+\)\s*/, ''): strips a leading numbering such as "3) ".
StripNumbering(s) ==
    LET Strip(n) == IF n >= 1 /\ n + 1 <= Len(s) /\ s[n + 1] = ")"
                    THEN SubSeq(s, SkipSpace(s, n + 2), Len(s))
                    ELSE s
    IN  Strip(DigitRun(s, 1))

\* v || '' for a string property.
OrEmptyStr(v) == IF TruthyStr(v) THEN v ELSE <<>>

\* The normalisation that fetchYojanas of part_001 applies to each record
\* (lines 75-80).
normalizeYojana(y) ==
    [y EXCEPT !.DisabilityType =
                  IF TruthyStr(y.tblDivyangTypes) THEN y.tblDivyangTypes
                  ELSE OrEmptyStr(y.DisabilityType),
              !.Description = OrEmptyStr(y.Description)]

\* The age test of applySmartFilters (part_001 lines 169-177, part_003
\* lines 148-152).
ageMatchSmart(y, age) ==
    LET startAge == IF TruthyNum(y.Start_Age) THEN y.Start_Age ELSE 0
        upToAge == IF TruthyNum(y.UpTo_Age) THEN y.UpTo_Age ELSE 100
    IN  age >= startAge /\ age <= upToAge

\* The disability test of applySmartFilters in part_001.
disabilityMatch001(y, disabilityType) ==
    LET Either(cleanYojanaDisability, cleanDetectedType) ==
            \/ Includes(cleanYojanaDisability, cleanDetectedType)
            \/ Includes(cleanDetectedType, cleanYojanaDisability)
    IN  Either(StripNumbering(OrEmptyStr(y.DisabilityType)),
               StripNumbering(disabilityType))

\* applySmartFilters of part_001: at most 10 schemes go to the model.
applySmartFilters001(yojanas, msg) ==
    LET ByDis(byAge, disabilityType) ==
            LET KeepDis(y) == disabilityMatch001(y, disabilityType)
            IN  IF TruthyStr(disabilityType) THEN SelectSeq(byAge, KeepDis) ELSE byAge
        ByAge(age) ==
            LET KeepAge(y) == ageMatchSmart(y, age)
            IN  IF TruthyNum(age) THEN SelectSeq(yojanas, KeepAge) ELSE yojanas
    IN  SliceFirst(ByDis(ByAge(detectAge001(msg)), detectDisabilityType001(msg)), 10)

\* The disability test of applySmartFilters in part_003.
disabilityMatch003(y, disabilityType) ==
    LET Test(yojanaDisability) ==
            \/ Includes(yojanaDisability, disabilityType)
            \/ disabilityType = <<"p","h","y","s","i","c","a","l">> /\ Includes(yojanaDisability, <<"l","o","c","o","m","o","t","o","r">>)
            \/ disabilityType = <<"v","i","s","i","o","n">> /\ Includes(yojanaDisability, <<"b","l","i","n","d">>)
            \/ disabilityType = <<"h","e","a","r","i","n","g">> /\ Includes(yojanaDisability, <<"d","e","a","f">>)
    IN  Test(ToLower(OrEmptyStr(y.DisabilityType)))

\* The category test of applySmartFilters in part_003.
categoryMatch003(y, category) ==
    LET Test(searchText) ==
            LET Has(w) == Includes(searchText, w)
            IN  CASE category = <<"e","d","u","c","a","t","i","o","n">> ->
                       Has(<<"e","d","u","c","a","t","i","o","n">>) \/ Has(<<"s","t","u","d","y">>) \/ Has(<<"s","c","h","o","o","l">>) \/ Has(<<"s","h","i","k","s","h","a","n">>)
                  [] category = <<"e","m","p","l","o","y","m","e","n","t">> ->
                       Has(<<"e","m","p","l","o","y","m","e","n","t">>) \/ Has(<<"j","o","b">>) \/ Has(<<"w","o","r","k">>) \/ Has(<<"r","o","j","g","a","r">>)
                  [] category = <<"h","e","a","l","t","h","c","a","r","e">> ->
                       Has(<<"h","e","a","l","t","h">>) \/ Has(<<"m","e","d","i","c","a","l">>) \/ Has(<<"t","r","e","a","t","m","e","n","t">>) \/ Has(<<"a","r","o","g","y","a">>)
                  [] category = <<"f","i","n","a","n","c","i","a","l">> ->
                       Has(<<"p","e","n","s","i","o","n">>) \/ Has(<<"a","l","l","o","w","a","n","c","e">>) \/ Has(<<"f","i","n","a","n","c","i","a","l">>) \/ Has(<<"a","r","t","h","i","k">>)
                  [] OTHER -> TRUE
    IN  Test(ToLower(OrEmptyStr(y.Description)) \o <<" ">>
               \o ToLower(OrEmptyStr(y.YojanaName)))

\* applySmartFilters of part_003: at most 15 schemes go to the model.
applySmartFilters003(yojanas, msg) ==
    LET ByCat(byDis, category) ==
            LET KeepCat(y) == categoryMatch003(y, category)
            IN  IF TruthyStr(category) THEN SelectSeq(byDis, KeepCat) ELSE byDis
        ByDis(byAge, disabilityType) ==
            LET KeepDis(y) == disabilityMatch003(y, disabilityType)
            IN  IF TruthyStr(disabilityType) THEN SelectSeq(byAge, KeepDis) ELSE byAge
        ByAge(age) ==
            LET KeepAge(y) == ageMatchSmart(y, age)
            IN  IF TruthyNum(age) THEN SelectSeq(yojanas, KeepAge) ELSE yojanas
    IN  SliceFirst(ByCat(ByDis(ByAge(detectAge003(msg)), detectDisabilityType003(msg)),
                         detectCategory(msg)), 15)


\* ------------------------------------------------------------------------
\* Requests, responses and fixed texts
\* ------------------------------------------------------------------------

Variants == {"agent1", "agent2", "p000a", "p000b", "p000c",
             "p001", "p002", "p003", "p004", "p005"}

\* Variants that keep a session map, and what they keep in a session.
SlotVariants == {"p000b", "p005"}
HistoryVariants == {"p001", "p002", "p003", "p004"}
SessionVariants == SlotVariants \cup HistoryVariants
\* Variants that install the setInterval session cleanup.
SweepVariants == {"p001", "p003"}
\* Variants that exit at start-up when GEMINI_API_KEY is not set.
KeyRequiredVariants == {"p000a", "p002", "p004"}

\* A fixed text of the source, named by a tag (one-element string).
Fixed(tag) == <<tag>>

\* The body of a POST /api/chat request.  msgKind tells whether message is a
\* string, is missing or is of another type; userId and locale are the
\* optional context properties ("" when absent); slots are the age,
\* disability and percentage properties a client may put into context.
NoSlots == [age |-> Null, disability |-> Undefined, percentage |-> Null]
Body(msgKind, message, userId, locale, slots) ==
    [msgKind |-> msgKind, message |-> message, userId |-> userId,
     locale |-> locale, slots |-> slots]

\* chatRequestSchema.safeParse(req.body).success: message is a string of
\* length at least 1.
ValidBody(body) == body.msgKind = "string" /\ Len(body.message) >= 1

\* validation.error.errors: one zod issue for the message field.
ZodErrors(body) ==
    IF body.msgKind = "string" THEN Arr(<<"too_small">>) ELSE Arr(<<"invalid_type">>)

\* validation.data.context: zod strips the properties the schema does not
\* declare, so age, disability and percentage never reach the handler.
ParsedSlots(body) == NoSlots

\* A session key that ignores the userId: every request uses one session.
UserIdShared(body) == "default"

\* context.userId || 'default'
UserIdOf(body) == IF body.userId = "" THEN "default" ELSE body.userId

\* An HTTP response.  status 0: none sent.  error: the body has the keys
\* error and details (agent.js) instead of message and errors.  raw: the
\* body is the framework's error page, which carries the exception text.
Response(status, message, links, yojanas, errors, error) ==
    [status |-> status, message |-> message, links |-> links,
     yojanas |-> yojanas, errors |-> errors, error |-> error, raw |-> FALSE]
NoResponse == Response(0, Undefined, Absent, Absent, Absent, FALSE)
Json(status, message, links, yojanas) ==
    Response(status, message, links, yojanas, Absent, FALSE)
FrameworkError ==
    [Response(500, Undefined, Absent, Absent, Absent, FALSE) EXCEPT !.raw = TRUE]

\* linkCatalog of agent.js and of part_000 lines 535-558: an array of
\* entries {message, links?}; the links that the entries hold.
agentCatalogLinks == <<Link("Register", RegisterUrl), Link("Login", LoginUrl)>>
\* The array itself, as the developer-mode branch returns it under "links":
\* three entries none of which has a url property.
agentCatalogEntries ==
    <<Link("<entry>", "<undefined>"), Link("<entry>", "<undefined>"),
      Link("<entry>", "<undefined>")>>

\* linkCatalog.login, .register and .contact of part_000b, part_001,
\* part_003 and part_005.
catalogLogin == <<Link(LoginLabel, LoginUrl)>>
catalogRegister == <<Link(RegisterLabel, RegisterUrl)>>
catalogContact == <<Link(ContactLabel, ContactUrl)>>

\* The links that a variant's catalog (or, in the variants without a
\* catalog object, its prompt) names.
CatalogOf(v) ==
    CASE v \in {"agent1", "agent2", "p000c"} -> agentCatalogLinks
      [] v \in {"p001", "p003"} -> catalogLogin \o catalogRegister \o catalogContact
      [] v = "p002" ->
           <<Link("Login (mr)", "https://divyangahilyanagar.altwise.in/home/login"),
             Link("Register (mr)",
                  "https://divyangahilyanagar.altwise.in/home/newregistration")>>
      [] OTHER -> catalogLogin \o catalogRegister

\* Sample scheme records.
hearingType == <<"k","b"," ","(","H","e","a","r","i","n","g"," ","I","m","p","a","i","r","m","e","n","t",")">>
blindType == <<"p","a"," ","(","B","l","i","n","d","n","e","s","s",")">>
scheme1 == Scheme(1, <<"a","b","c">>, 0, 60, 40, hearingType, hearingType, <<"n","a","g","a","r"," ","p","a","n","c","h","a","y","a","t">>)
scheme2 == Scheme(2, <<"d","e","f">>, 18, 35, 80, hearingType, hearingType, <<"z","p">>)
scheme3 == Scheme(3, <<"g","h","i">>, 61, Missing, 40, blindType, blindType, <<"z","p">>)
scheme4 == Scheme(4, <<"j","k","l">>, 0, 100, Missing, <<>>, <<>>, <<"z","p">>)
scheme5 == Scheme(5, Undefined, 0, 100, 50, hearingType, Undefined, Undefined)
scheme6 == Scheme(6, <<"m","n","o">>, 40, 50, 90, hearingType, hearingType, <<"z","p">>)

\* What the scheme source may answer: an array of records, a body that is
\* not an array, a non-2xx status, or no answer (network error).
SchemeLists == {<<>>, <<scheme1, scheme2, scheme3, scheme4, scheme6>>,
                <<scheme5, scheme1>>}
FetchOutcomes ==
    {[kind |-> "array", data |-> l] : l \in SchemeLists}
      \cup {[kind |-> k, data |-> <<>>] : k \in {"nonarray", "status", "network"}}

\* fetchYojanas of part_000, part_002, part_003 and part_004: the array, or
\* [] on any failure.  part_005 does not test res.ok, with the same result
\* for these outcomes.
fetchYojanas(outcome) == IF outcome.kind = "array" THEN outcome.data ELSE <<>>

\* fetchYojanas of part_001: the same with each record normalised.
fetchYojanas001(outcome) ==
    LET Normalized(data) == [i \in 1..Len(data) |-> normalizeYojana(data[i])]
    IN  Normalized(fetchYojanas(outcome))

\* What the model call may do: return text, reject (generateContent fails)
\* or answer without text (response.text() throws).
ModelTexts ==
    {<<"{", "m:hi", "}">>,
     <<"{", "m:hi", "l:login", "y:one", "}">>,
     <<"{", "m:hi", "l:evil", "}">>,
     <<"{", "m:hi", "l:label", "}">>,
     <<"{", "m:hi", "l:null", "}">>,
     <<"{", "m:hi", "l:str", "}">>,
     <<"{", "m:", "a:25", "d:deaf", "p:60", "}">>,
     <<"{", "m:hi", "a:70", "p:60", "}">>,
     <<"{", "m:hi", "a:25", "}">>,
     <<"<fence-json>", "\n", "{", "m:hi", "l:login", "}", "\n", "<fence>">>,
     <<"w:Sure", "{", "m:hi", "}", "w:bye">>,
     <<"w:Hello", " ", "w:there">>,
     <<"w:Hello", "\n">>,
     <<"{", "w:oops", "}">>,
     <<"{", "}">>,
     <<"n:42">>,
     <<"null">>,
     <<>>}
ModelOutcomes ==
    {[kind |-> "text", text |-> t] : t \in ModelTexts}
      \cup {[kind |-> k, text |-> <<>>] : k \in {"reject", "notext"}}

\* Sample request messages (msgNamaskar stands for a Devanagari greeting).
msgHello == <<"h","e","l","l","o">>
msgLogin == <<"L","o","g","i","n">>
msgRegister == <<"r","e","g","i","s","t","e","r">>
msgYojana == <<"y","o","j","a","n","a">>
msgYojana25 == <<"y","o","j","a","n","a"," ","2","5">>
msgDeafScheme == <<"d","e","a","f"," ","s","c","h","e","m","e">>
msgIAm70 == <<"i"," ","a","m"," ","7","0">>
msgForm == <<"G","e","t"," ","Y","o","j","a","n","a"," ","f","o","r"," ","A","g","e",":"," ","2","5",","," ","D","i","s","a","b","i","l","i","t","y",":"," ","d","e","a","f",","," ","P","e","r","c","e","n","t","a","g","e",":"," ","6","0">>
msgForm70 == <<"A","g","e",":"," ","7","0",","," ","D","i","s","a","b","i","l","i","t","y",":"," ","b","l","i","n","d",","," ","P","e","r","c","e","n","t","a","g","e",":"," ","3","0">>
msgField == <<"a","b","c"," ","d","e","s","c","r","i","p","t","i","o","n">>
msgPublisher == <<"n","a","g","a","r"," ","p","a","n","c","h","a","y","a","t"," ","y","o","j","a","n","a">>
msgNamaskar == <<"~","n","a","m","a","s","k","a","r">>
Messages == {msgHello, msgLogin, msgRegister, msgYojana, msgYojana25,
             msgDeafScheme, msgIAm70, msgForm, msgForm70, msgField, msgPublisher}

UserIds == {"default", "u1", "u2"}

ValidBodies ==
    {Body("string", m, "u1", "", NoSlots) : m \in Messages}
      \cup {Body("string", m, "u2", "", NoSlots) : m \in {msgYojana25, msgHello}}
      \cup {Body("string", msgDeafScheme, "", "", NoSlots),
            Body("string", msgHello, "u1", "mr", NoSlots),
            Body("string", msgNamaskar, "u1", "", NoSlots),
            Body("string", msgYojana, "u1", "",
                 [age |-> 25, disability |-> <<"d","e","a","f">>, percentage |-> 60])}
InvalidBodies ==
    {Body("string", <<>>, "u1", "", NoSlots),
     Body("missing", Undefined, "u1", "", NoSlots),
     Body("number", Undefined, "", "", NoSlots)}
Bodies == ValidBodies \cup InvalidBodies


\* ------------------------------------------------------------------------
\* Sessions and handler steps
\* ------------------------------------------------------------------------

\* One turn of conversationHistory.  part_002 and part_004 name the sender
\* "type" and add a timestamp that nothing reads.
Turn(sender, message) == [sender |-> sender, message |-> message]

\* A session object.  The slot variants use age and disability, the history
\* variants conversationHistory (and lastLanguage); lastActivity is the
\* property the cleanup reads.
Session(age, disability, history, lastLanguage) ==
    [age |-> age, disability |-> disability, conversationHistory |-> history,
     lastLanguage |-> lastLanguage, lastActivity |-> Missing]
NewSession == Session(Null, Undefined, <<>>, "")

\* What a handler has done when it next yields: pc is where it waits
\* ("fetch", "model"), "done" after res.json, "hung" when it ended without
\* sending; sess is the session object as it leaves it; stage, yojanas, json
\* and hist are the locals it keeps across the await; crit is the criteria
\* object it has handed to a scheme filter and matched the number of schemes
\* the filter kept (Missing: no filter has run).
Out(pc, resp, sess) ==
    [pc |-> pc, resp |-> resp, sess |-> sess, stage |-> "",
     yojanas |-> <<>>, json |-> JValue("undefined"), hist |-> <<>>,
     crit |-> NoCriteria, matched |-> Missing]
Filtered(out, criteria, kept) ==
    [out EXCEPT !.crit = criteria, !.matched = Len(kept)]
Done(resp, sess) == Out("done", resp, sess)
Await(pc, sess, stage) == [Out(pc, NoResponse, sess) EXCEPT !.stage = stage]

\* /yojana|scheme/i.test(message)
MentionsYojana(msg) ==
    LET Test(s) == Includes(s, <<"y","o","j","a","n","a">>) \/ Includes(s, <<"s","c","h","e","m","e">>)
    IN  Test(ToLower(msg))

\* ------------------------------------------------------------------------
\* agent.js: the two handlers and the handler of part_000 lines 589-653
\* ------------------------------------------------------------------------

\* yojanaData.js (names abbreviated; no percentage and no tblDivyangTypes).
yojanaData ==
    <<Scheme(1, <<"A","D","I","P">>, 0, 60, Missing, Undefined, <<"p","h","y","s","i","c","a","l",","," ","h","e","a","r","i","n","g",","," ","v","i","s","i","o","n">>, Undefined),
      Scheme(2, <<"F","e","l","l","o","w","s","h","i","p">>, 18, 35, Missing, Undefined, <<"a","l","l">>, Undefined),
      Scheme(3, <<"S","c","h","o","l","a","r","s","h","i","p">>, 5, 30, Missing, Undefined, <<"a","l","l">>, Undefined),
      Scheme(4, <<"D","D","R","S">>, 0, 80, Missing, Undefined, <<"a","l","l">>, Undefined),
      Scheme(5, <<"N","H","F","D","C">>, 18, 45, Missing, Undefined, <<"a","l","l">>, Undefined),
      Scheme(6, <<"N","i","r","a","m","a","y","a">>, 0, 65, Missing, Undefined,
             <<"i","n","t","e","l","l","e","c","t","u","a","l",","," ","a","u","t","i","s","m",","," ","c","e","r","e","b","r","a","l"," ","p","a","l","s","y">>, Undefined),
      Scheme(7, <<"U","D","I","D">>, 0, 99, Missing, Undefined, <<"a","l","l">>, Undefined),
      Scheme(8, <<"I","G","N","D","P","S">>, 18, 79, Missing, Undefined, <<"a","l","l">>, Undefined),
      Scheme(9, <<"P","e","n","s","i","o","n">>, 18, 79, Missing, Undefined, <<"a","l","l">>, Undefined),
      Scheme(10, <<"S","I","P","D","A">>, 18, 55, Missing, Undefined, <<"a","l","l">>, Undefined)>>

\* age >= y.Start_Age && age <= y.UpTo_Age (a comparison with undefined is
\* false).
agentAgeMatch(y, age) ==
    /\ y.Start_Age # Missing
    /\ y.UpTo_Age # Missing
    /\ age >= y.Start_Age
    /\ age <= y.UpTo_Age

\* percentage >= y.tblYojanaDivyangTypePercentages
agentPercentageMatch(y, percentage) == y.pct # Missing /\ percentage >= y.pct

\* filtered.filter(y => y.tblDivyangTypes.includes(disability)): a TypeError
\* when a record that is still in the list has no tblDivyangTypes.
agentDisabilityStep(list, disability) ==
    LET Test(y) == Includes(y.tblDivyangTypes, disability)
    IN  IF \E i \in 1..Len(list) : list[i].tblDivyangTypes = Undefined
        THEN Threw
        ELSE Returned(SelectSeq(list, Test))

\* The three filters in the order of the code, each applied when its
\* criterion is used (useX).
agentMatches(yojanas, age, useAge, percentage, usePct, disability, useDis) ==
    LET AgeTest(y) == agentAgeMatch(y, age)
        PctTest(y) == agentPercentageMatch(y, percentage)
        ByDis(byPct) ==
            IF useDis THEN agentDisabilityStep(byPct, disability) ELSE Returned(byPct)
        ByPct(byAge) == ByDis(IF usePct THEN SelectSeq(byAge, PctTest) ELSE byAge)
    IN  ByPct(IF useAge THEN SelectSeq(yojanas, AgeTest) ELSE yojanas)

\* The filter result without the fallback.
agentNoFallback(filtered, yojanas) == filtered

\* if (filtered.length === 0) filtered = yojanas.slice(0, 3)
agentFallback(filtered, yojanas) ==
    IF Len(filtered) = 0 THEN SliceFirst(yojanas, 3) ELSE filtered

\* json.links.filter(out => linkCatalog.some(known =>
\*   known.links?.some(l => l.url === out.url))), [] when links is no array;
\* a TypeError when an element is null.
agentLinks(json) ==
    LET Known(out) == \E i \in 1..Len(agentCatalogLinks) :
                          agentCatalogLinks[i].url = out.url
    IN  IF ~IsArray(json.links) THEN Returned(<<>>)
        ELSE IF \E i \in 1..Len(json.links.items) : json.links.items[i] = NullLink
        THEN Threw
        ELSE Returned(SelectSeq(json.links.items, Known))


\* res.status(400).json({error, details})
agentBadRequest == Response(400, Undefined, Absent, Absent, Absent, TRUE)
\* res.status(500).json({message, links: []})
agentError(msg) == Json(500, msg, Arr(<<>>), Absent)

\* agent.js lines 65-103, up to the model call.
Start_agent1(body, sess, hasKey) ==
    LET Suggest(slots, f) ==
            IF f.threw THEN Out("hung", NoResponse, sess)
            ELSE Filtered(Done(Json(200, Fixed("Based on your details, here are some Yojanas:"), Arr(<<>>),
                                    Arr(SliceFirst(agentFallback(f.val, yojanaData), 3))),
                               sess),
                          Criteria(slots.age, slots.disability, slots.percentage,
                                   Undefined), f.val)
        Handle(slots) ==
            IF ~ValidBody(body) THEN Done(agentBadRequest, sess)
            ELSE IF MentionsYojana(body.message)
            THEN IF ~TruthyNum(slots.age)
                 THEN Done(Json(200, Fixed("Please tell me your age so I can suggest suitable Yojanas."), Arr(<<>>), Absent), sess)
                 ELSE IF ~TruthyStr(slots.disability)
                 THEN Done(Json(200, Fixed("Please tell me your disability type."), Arr(<<>>), Absent), sess)
                 ELSE IF ~TruthyNum(slots.percentage)
                 THEN Done(Json(200, Fixed("Please tell me your disability percentage."), Arr(<<>>), Absent), sess)
                 ELSE Suggest(slots, agentMatches(yojanaData, slots.age, TRUE,
                                                  slots.percentage, TRUE,
                                                  slots.disability, TRUE))
            ELSE IF ~hasKey
            THEN Done(Json(200, Fixed("Developer mode: Set GEMINI_API_KEY to enable AI responses."), Arr(agentCatalogEntries), Absent), sess)
            ELSE Await("model", sess, "")
    IN  Handle(ParsedSlots(body))

\* String(json.message || fallback).trim()
agentMessage(json, fallback) ==
    Trim(IF TruthyStr(json.message) THEN json.message ELSE fallback)

\* agent.js lines 110-120 and part_000 lines 636-651, after the model call;
\* withYojanas: the response has the key yojanas (agent.js only).
AfterModel_agent1(req, sess, outcome, withYojanas) ==
    LET Reply(text, json, links) ==
            IF json.t = "null" \/ links.threw THEN Done(agentError(Fixed("Sorry, there was an issue processing your request.")), sess)
            ELSE Done(Json(200, agentMessage(json, text), Arr(links.val),
                           IF withYojanas THEN OrEmpty(json.yojanas) ELSE Absent), sess)
        Coerced(text, json) == Reply(text, json, agentLinks(json))
        WithText(text) ==
            IF outcome.kind = "reject" THEN Done(agentError(Fixed("Sorry, there was an issue processing your request.")), sess)
            ELSE IF text = <<>> THEN Done(Json(200, Fixed("I couldn't generate a response, please try again."), Arr(<<>>), Absent), sess)
            ELSE Coerced(text, coerceGeminiJson(text))
    IN  WithText(IF outcome.kind = "text" THEN outcome.text ELSE <<>>)

\* agent.js lines 243-269, up to the model call.
Start_agent2(body, sess, hasKey) ==
    IF ~ValidBody(body) THEN Done(agentBadRequest, sess)
    ELSE IF ~hasKey
    THEN Done(Json(200, Fixed("Developer mode: Set GEMINI_API_KEY to enable AI responses."), Arr(agentCatalogEntries), Absent), sess)
    ELSE Await("model", sess, "")

\* agent.js lines 271-290: the model has answered; the scheme fetch follows.
AfterModel_agent2(req, sess, outcome) ==
    LET WithText(text) ==
            IF outcome.kind = "reject" THEN Done(agentError(Fixed("Sorry, there was an issue processing your request.")), sess)
            ELSE IF text = <<>> THEN Done(Json(200, Fixed("I couldn't generate a response, please try again."), Arr(<<>>), Absent), sess)
            ELSE [Await("fetch", sess, "") EXCEPT !.json = coerceGeminiJson(text)]
    IN  WithText(IF outcome.kind = "text" THEN outcome.text ELSE <<>>)

\* agent.js lines 291-341: axios.get has settled (it rejects on a network
\* error and on a non-2xx status; any 2xx body becomes yojanas).
AfterFetch_agent2(req, sess, outcome) ==
    LET Reply(json, f, links) ==
            IF outcome.kind \in {"network", "status"}
            THEN Done(agentError(Fixed("Unable to fetch Yojana data. Please try later.")), sess)
            ELSE IF json.t = "null" \/ outcome.kind = "nonarray" \/ f.threw \/ links.threw
            THEN Done(agentError(Fixed("Sorry, there was an issue processing your request.")), sess)
            ELSE Filtered(Done(Json(200, agentMessage(json, Fixed("Here are some Yojanas.")), Arr(links.val),
                                    Arr(SliceFirst(agentFallback(f.val, outcome.data), 3))),
                               sess),
                          Criteria(IF TruthyNum(json.age) THEN json.age ELSE Null,
                                   IF TruthyStr(json.disabilityType) THEN json.disabilityType
                                   ELSE Undefined,
                                   IF TruthyNum(json.percentage) THEN json.percentage ELSE Null,
                                   Undefined),
                          f.val)
        Handle(json) ==
            Reply(json,
                  agentMatches(outcome.data, json.age, TruthyNum(json.age),
                               json.percentage, TruthyNum(json.percentage),
                               json.disabilityType, TruthyStr(json.disabilityType)),
                  agentLinks(json))
    IN  Handle(req.json)


\* ------------------------------------------------------------------------
\* part_000: the handler of lines 59-126 and the handler of lines 275-480
\* ------------------------------------------------------------------------


\* res.status(400).json({message, errors, links: [], yojanas: []})
fullBadRequest(body) ==
    Response(400, Fixed("Invalid request"), Arr(<<>>), Arr(<<>>), ZodErrors(body), FALSE)
\* res.status(400).json({message, errors})
shortBadRequest(body, msg) ==
    Response(400, msg, Absent, Absent, ZodErrors(body), FALSE)
\* res.status(500).json({message, links: [], yojanas: []})
fullError(msg) == Json(500, msg, Arr(<<>>), Arr(<<>>))

\* part_000 lines 59-72.
Start_p000a(body, sess, hasKey) ==
    IF ~ValidBody(body) THEN Done(fullBadRequest(body), sess)
    ELSE Await("fetch", sess, "")

\* part_000 lines 72-105: the schemes go into the prompt.
AfterFetch_p000a(req, sess, outcome) ==
    [Await("model", sess, "") EXCEPT !.yojanas = fetchYojanas(outcome)]


\* part_000 lines 106-124.
AfterModel_p000a(req, sess, outcome) ==
    LET Reply(ok, parsed) ==
            IF outcome.kind # "text" \/ ~ok \/ parsed.t = "null"
            THEN Done(fullError(Fixed("Internal server error")), sess)
            ELSE Done(Json(200,
                           IF TruthyStr(parsed.message) THEN parsed.message
                           ELSE Fixed("Maaf kara, kahitari chukla."),
                           OrEmpty(parsed.links), OrEmpty(parsed.yojanas)), sess)
        Parsed(p) == Reply(p.ok, p.val)
    IN  Parsed(JSONparse(Trim(StripFences(outcome.text))))


\* The first known link that the test accepts for link, as {link} ({} when
\* there is none): allKnownLinks.find(known => ...).
FindKnown(known, link, byLabel) ==
    LET First(hits) == IF hits = {} THEN <<>> ELSE <<known[MinOf(hits)]>>
    IN  First({i \in 1..Len(known) :
                  \/ known[i].url = link.url
                  \/ byLabel /\ known[i].label = link.label})

\* parsedResponse.links.forEach(link => { const knownLink = ...find(...);
\* if (knownLink) validLinks.push(knownLink) }): the known links, in the
\* order of the proposed ones.
RECURSIVE PushKnown(_, _, _)
PushKnown(known, links, byLabel) ==
    IF links = <<>> THEN <<>>
    ELSE FindKnown(known, Head(links), byLabel) \o PushKnown(known, Tail(links), byLabel)

\* The link validation of part_000 (445-457), part_001 (285-293) and
\* part_003 (268-280): nothing when links is not an array, a TypeError when
\* an element is null.
validLinks(known, links, byLabel) ==
    IF ~IsArray(links) THEN Returned(<<>>)
    ELSE IF \E i \in 1..Len(links.items) : links.items[i] = NullLink THEN Threw
    ELSE Returned(PushKnown(known, links.items, byLabel))

\* message.toLowerCase().includes('yojana') || ...includes('scheme') || ...
isYojanaQuery(msg) == MentionsYojana(msg)

\* The slot update written without its guards: session.age = age and
\* session.disability = disability whatever was detected.
rememberSlotsAlways(sess, age, disability) ==
    [sess EXCEPT !.age = age, !.disability = disability]

\* if (age) session.age = age; if (disability) session.disability =
\* disability (part_000 lines 344-346, part_005 lines 256-257).
rememberSlots(sess, age, disability) ==
    [sess EXCEPT
       !.age = IF TruthyNum(age) THEN age ELSE @,
       !.disability = IF TruthyStr(disability) THEN disability ELSE @]

\* A handler that detects and stores the age and the disability before it
\* looks for 'login' and 'register'.
Start_p000bDetectFirst(body, sess, hasKey) ==
    IF ~ValidBody(body) THEN Done(shortBadRequest(body, Fixed("Invalid request format")), sess)
    ELSE IF Includes(ToLower(body.message), <<"l","o","g","i","n">>)
    THEN Done(Json(200, Fixed("Here are the login options for Divyang Portal:"), Arr(catalogLogin), Absent),
              rememberSlots(sess, detectAge(body.message), detectDisability000(body.message)))
    ELSE Done(Json(200, Fixed("Here are the registration options for Divyang Portal:"), Arr(catalogRegister), Absent),
              rememberSlots(sess, detectAge(body.message), detectDisability000(body.message)))

\* part_000 lines 275-375 up to the first await.
Start_p000b(body, sess, hasKey) ==
    LET Route(message, lowerMessage, asksYojana, detectedAge, s1) ==
            IF ~ValidBody(body) THEN Done(shortBadRequest(body, Fixed("Invalid request format")), sess)
            ELSE IF Includes(lowerMessage, <<"l","o","g","i","n">>)
            THEN Done(Json(200, Fixed("Here are the login options for Divyang Portal:"), Arr(catalogLogin), Absent), sess)
            ELSE IF Includes(lowerMessage, <<"r","e","g","i","s","t","e","r">>)
            THEN Done(Json(200, Fixed("Here are the registration options for Divyang Portal:"), Arr(catalogRegister), Absent), sess)
            ELSE IF parseStructuredQuery000(message).found
            THEN Await("fetch", sess, "structured")
            ELSE IF asksYojana /\ ~TruthyNum(s1.age) /\ ~TruthyNum(detectedAge)
            THEN Done(Json(200, Fixed("Please tell me your age so I can suggest the best schemes for you."), Arr(<<>>), Absent), s1)
            ELSE IF TruthyNum(s1.age) /\ asksYojana
            THEN Await("fetch", s1, "session")
            ELSE IF ~hasKey
            THEN Done(Json(200, Fixed("Developer mode: Set GEMINI_API_KEY to enable AI responses."), Arr(catalogLogin \o catalogRegister), Absent), s1)
            ELSE Await("model", s1, "")
        Detected(message, detectedAge, detectedDisability) ==
            Route(message, ToLower(message), isYojanaQuery(message), detectedAge,
                  rememberSlots(sess, detectedAge, detectedDisability))
        Handle(message) ==
            Detected(message, detectAge(message), detectDisability000(message))
    IN  Handle(body.message)

\* The session branch of the same step as it would be if the handler kept
\* the age it detected in a local of its own and filtered by that, instead
\* of reading session.age again after the await.
AfterFetch_p000bOwnAge(req, sess, outcome) ==
    LET Reply(criteria, f) ==
            IF f.threw
            THEN Done(Json(500, Fixed("Internal server error. Please try again later."), Arr(<<>>), Absent), sess)
            ELSE Filtered(Done(Json(200, Fixed("Based on your age, here are the suitable schemes:"), Arr(<<>>),
                                    Arr(SliceFirst(f.val, 3))), sess),
                          criteria, f.val)
        Query(criteria) == Reply(criteria, filterYojanas000(fetchYojanas(outcome), criteria))
        Own(age) == Query(Criteria(IF TruthyNum(age) THEN age ELSE sess.age,
                                   sess.disability, Null, Undefined))
    IN  Own(detectAge(req.body.message))

\* part_000 lines 317-338 and 365-392: the schemes have arrived.
AfterFetch_p000b(req, sess, outcome) ==
    LET Text(top) ==
            IF req.stage = "structured"
            THEN IF Len(top) > 0 THEN Fixed("Based on your age and disability type, here are the suitable schemes:") ELSE Fixed("Sorry, no schemes found for your criteria. Age, Disability")
            ELSE IF Len(top) = 0 THEN Fixed("Sorry, no schemes found for your criteria.")
            ELSE IF TruthyStr(sess.disability) THEN Fixed("Based on your age and disability, here are the suitable schemes:")
            ELSE Fixed("Based on your age, here are the suitable schemes:")
        Reply(criteria, f, top) ==
            IF f.threw
            THEN Done(Json(500, Fixed("Internal server error. Please try again later."), Arr(<<>>), Absent), sess)
            ELSE Filtered(Done(Json(200, Text(top), Arr(<<>>), Arr(top)), sess),
                          criteria, f.val)
        Answer(criteria, f) == Reply(criteria, f, SliceFirst(f.val, 3))
        Query(all, criteria) == Answer(criteria, filterYojanas000(all, criteria))
        Structured(all, q) ==
            Query(all, Criteria(q.age, q.disabilityType, Null, Undefined))
    IN  IF req.stage = "structured"
        THEN Structured(fetchYojanas(outcome),
                        parseStructuredQuery000(req.body.message).criteria)
        ELSE Query(fetchYojanas(outcome),
                   Criteria(sess.age, sess.disability, Null, Undefined))

\* part_000 lines 427-470: the model call has settled.
AfterModel_p000b(req, sess, outcome) ==
    LET Reply(parsed, links) ==
            IF outcome.kind # "text" \/ parsed.t = "null" \/ links.threw
            THEN Done(Json(200, Fixed("I can help with divyang portal related issues only. Please ask about login, registration, or yojana/schemes."), Arr(catalogLogin \o catalogRegister), Absent),
                      sess)
            ELSE Done(Json(200,
                           IF TruthyStr(parsed.message) THEN parsed.message ELSE Fixed("I can help you with disability portal related queries."),
                           Arr(links.val), Arr(<<>>)), sess)
        Parsed(parsed) ==
            Reply(parsed, validLinks(catalogLogin \o catalogRegister, parsed.links, TRUE))
        Tried(aiResponse, p) ==
            Parsed(IF p.ok THEN p.val
                   ELSE [MessageOnly(aiResponse) EXCEPT !.links = Arr(<<>>)])
        Stripped(aiResponse) == Tried(aiResponse, JSONparse(aiResponse))
    IN  Stripped(StripFences(outcome.text))

\* part_000 lines 589-607 (the handler of the third program of the file).
Start_p000c(body, sess, hasKey) == Start_agent2(body, sess, hasKey)


\* ------------------------------------------------------------------------
\* part_005
\* ------------------------------------------------------------------------


\* fieldKeywords, in key order.
fieldKeywords ==
    <<[type |-> <<"n","a","m","e">>, keywords |-> <<<<"n","a","m","e">>, <<"y","o","j","a","n","a"," ","n","a","m","e">>, <<"n","a","v">>>>],
      [type |-> <<"d","e","s","c","r","i","p","t","i","o","n">>, keywords |-> <<<<"d","e","s","c","r","i","p","t","i","o","n">>, <<"v","a","r","n","a","n">>>>],
      [type |-> <<"a","g","e">>, keywords |-> <<<<"a","g","e">>, <<"v","a","y">>, <<"a","g","e"," ","r","a","n","g","e">>>>],
      [type |-> <<"p","e","r","c","e","n","t","a","g","e">>, keywords |-> <<<<"p","e","r","c","e","n","t","a","g","e">>, <<"p","r","a","t","i","s","h","a","t">>>>],
      [type |-> <<"p","u","b","l","i","s","h","e","r">>, keywords |-> <<<<"p","u","b","l","i","s","h","e","d"," ","b","y">>, <<"p","r","a","k","a","s","h","a","k">>>>]>>

\* The words that end the scheme name in the lookahead of the name pattern.
nameStops == {<<"n","a","m","e">>, <<"d","e","s","c","r","i","p","t","i","o","n">>, <<"a","g","e">>, <<"p","e","r","c","e","n","t","a","g","e">>, <<"p","u","b","l","i","s","h","e","d"," ","b","y">>}

\* lowerMsg.match(/(.+?)(?=\s*(name|description|age|percentage|published by|$))/i):
\* the leftmost, shortest run of characters other than a line break that is
\* followed, after optional white space, by a stop word or the end.
yojanaNameMatch(lowerMsg) ==
    LET In(n, folded) ==
            LET Look(p) == \E q \in p..(n + 1) :
                              /\ \A i \in p..(q - 1) : IsSpace(lowerMsg[i])
                              /\ \/ q = n + 1
                                 \/ \E w \in nameStops : HasAt(folded, q, w)
                Ends(s) == {e \in s..n : /\ \A i \in s..e : lowerMsg[i] # "\n"
                                         /\ Look(e + 1)}
                From(s0) == [found |-> TRUE, text |-> SubSeq(lowerMsg, s0, MinOf(Ends(s0)))]
                Leftmost(starts) ==
                    IF starts = {} THEN [found |-> FALSE, text |-> <<>>]
                    ELSE From(MinOf(starts))
            IN  Leftmost({s \in 1..n : Ends(s) # {}})
    IN  In(Len(lowerMsg), ToLower(lowerMsg))

\* allYojanas.find(y => y.YojanaName.toLowerCase() === yojanaName): the
\* scheme as <<y>>, <<>> when there is none; a TypeError when a scheme
\* without YojanaName comes before any match.
RECURSIVE findByName(_, _)
findByName(yojanas, yojanaName) ==
    IF yojanas = <<>> THEN Returned(<<>>)
    ELSE IF Head(yojanas).YojanaName = Undefined THEN Threw
    ELSE IF ToLower(Head(yojanas).YojanaName) = yojanaName
    THEN Returned(<<Head(yojanas)>>)
    ELSE findByName(Tail(yojanas), yojanaName)

\* res.json({message, links: [], yojanas}) of part_005.
schemesResponse(msg, yojanas) == Json(200, msg, Arr(<<>>), Arr(yojanas))

\* part_005 lines 171-191, up to the scheme fetch.
Start_p005(body, sess, hasKey) ==
    LET Route(lowerMsg) ==
            IF ~ValidBody(body) THEN Done(shortBadRequest(body, Fixed("Invalid request")), sess)
            ELSE IF Includes(lowerMsg, <<"l","o","g","i","n">>)
            THEN Done(Json(200, Fixed("Login here:"), Arr(catalogLogin), Arr(<<>>)), sess)
            ELSE IF Includes(lowerMsg, <<"r","e","g","i","s","t","e","r">>)
            THEN Done(Json(200, Fixed("Register here:"), Arr(catalogRegister), Arr(<<>>)), sess)
            ELSE Await("fetch", sess, "")
    IN  Route(ToLower(body.message))

\* A general yojana query that forgets the session: it asks for the age and
\* the disability type whatever is known.
yojanaQuery005Forgetful(allYojanas, age, disability, sess) ==
    Done(schemesResponse(Fixed("Please provide your age and disability type to suggest suitable schemes."), <<>>), sess)

\* part_005 lines 260-286: the branches of a general yojana query.
yojanaQuery005(allYojanas, age, disability, sess) ==
    LET Answer(criteria, f, some, none) ==
            Filtered(Done(schemesResponse(IF Len(f.val) > 0 THEN some ELSE none, f.val),
                          sess),
                     criteria, f.val)
        Query(criteria, some, none) ==
            Answer(criteria, filterYojanas005(allYojanas, criteria), some, none)
    IN  IF TruthyStr(disability) \/ TruthyStr(sess.disability)
        THEN Query(Criteria(Null,
                            IF TruthyStr(disability) THEN disability ELSE sess.disability,
                            Null, Undefined),
                   Fixed("Found n schemes for the disability."),
                   Fixed("No schemes found for the disability."))
        ELSE IF TruthyNum(age) \/ TruthyNum(sess.age)
        THEN IF TruthyStr(sess.disability)
             THEN Query(Criteria(IF TruthyNum(age) THEN age ELSE sess.age,
                                 sess.disability, Null, Undefined),
                        Fixed("Based on your age and disability, here are suitable schemes:"),
                        Fixed("No schemes found for your criteria."))
             ELSE Done(schemesResponse(Fixed("Please provide your disability type to suggest suitable schemes."), <<>>), sess)
        ELSE Done(schemesResponse(Fixed("Please provide your age and disability type to suggest suitable schemes."), <<>>), sess)

\* part_005 lines 191-289: the schemes have arrived.
AfterFetch_p005(req, sess, outcome, hasKey) ==
    LET General(message, allYojanas, age, disability, s1) ==
            IF isYojanaQuery(message) THEN yojanaQuery005(allYojanas, age, disability, s1)
            ELSE IF ~hasKey
            THEN Done(Json(200, Fixed("I can help only with Divyang Portal queries (login, registration, or yojanas)."), Arr(catalogLogin \o catalogRegister),
                           Arr(<<>>)), s1)
            ELSE Await("model", s1, "")
        Detected(message, allYojanas, age, disability) ==
            General(message, allYojanas, age, disability,
                    rememberSlots(sess, age, disability))
        ByPublisher(criteria, byPublisher) ==
            IF byPublisher.threw THEN Done(fullError(Fixed("Internal server error")), sess)
            ELSE Filtered(Done(schemesResponse(IF Len(byPublisher.val) > 0
                                               THEN Fixed("Found n schemes published by nagar panchayat.")
                                               ELSE Fixed("No schemes found published by nagar panchayat."),
                                               byPublisher.val), sess),
                          criteria, byPublisher.val)
        Publisher(allYojanas, criteria) ==
            ByPublisher(criteria, filterYojanas005(allYojanas, criteria))
        ByName(matchedField, yojana) ==
            IF yojana.threw THEN Done(fullError(Fixed("Internal server error")), sess)
            ELSE IF yojana.val # <<>>
            THEN Done(schemesResponse(
                         Fixed("field") \o fieldKeywords[matchedField].type,
                         <<[yojana.val[1] EXCEPT
                              !.Disability = yojana.val[1].tblDivyangTypes]>>), sess)
            ELSE Done(schemesResponse(Fixed("Yojana not found."), <<>>), sess)
        Structured(criteria, filtered) ==
            Filtered(Done(schemesResponse(IF Len(filtered.val) > 0 THEN Fixed("Found n schemes matching your criteria.")
                                          ELSE Fixed("No schemes found for your criteria."), filtered.val), sess),
                     criteria, filtered.val)
        Route(message, lowerMsg, allYojanas, structured, matchedField, nameMatch) ==
            IF structured.found
            THEN Structured(structured.criteria,
                            filterYojanas005(allYojanas, structured.criteria))
            ELSE IF matchedField # 0 /\ nameMatch.found
            THEN ByName(matchedField, findByName(allYojanas, ToLower(Trim(nameMatch.text))))
            ELSE IF /\ Includes(lowerMsg, <<"n","a","g","a","r"," ","p","a","n","c","h","a","y","a","t">>)
                    /\ \/ Includes(lowerMsg, <<"y","o","j","a","n","a">>)
                       \/ Includes(lowerMsg, <<"u","n","d","e","r">>)
                       \/ Includes(lowerMsg, <<"b","y">>)
            THEN Publisher(allYojanas,
                           Criteria(Null, Undefined, Null, <<"n","a","g","a","r"," ","p","a","n","c","h","a","y","a","t">>))
            ELSE Detected(message, allYojanas, detectAge(message),
                          detectDisability005(message))
        Handle(message, lowerMsg, allYojanas) ==
            Route(message, lowerMsg, allYojanas, parseStructuredQuery005(message),
                  FirstKeywordEntry(fieldKeywords, lowerMsg), yojanaNameMatch(lowerMsg))
        Lowered(message) == Handle(message, ToLower(message), fetchYojanas(outcome))
    IN  Lowered(req.body.message)

\* (parsed.links || []).filter(l => known.some(k => k.url === l.url)): a
\* TypeError when links is no array or an element is null.
filterLinks005(links) ==
    LET known == catalogLogin \o catalogRegister
        Known(l) == \E i \in 1..Len(known) : known[i].url = l.url
    IN  IF ~Truthy(links) THEN Returned(<<>>)
        ELSE IF ~IsArray(links) THEN Threw
        ELSE IF \E i \in 1..Len(links.items) : links.items[i] = NullLink THEN Threw
        ELSE Returned(SelectSeq(links.items, Known))

\* part_005 lines 291-322: the model call has settled.
AfterModel_p005(req, sess, outcome) ==
    LET Reply(parsed, links) ==
            IF outcome.kind # "text" \/ parsed.t = "null" \/ links.threw
            THEN Done(Json(200, Fixed("I can help only with Divyang Portal queries (login, registration, or yojanas)."), Arr(catalogLogin \o catalogRegister),
                           Arr(<<>>)), sess)
            ELSE Done(Json(200,
                           IF TruthyStr(parsed.message) THEN parsed.message ELSE Fixed("I can help only with Divyang Portal queries (login, registration, or yojanas)."),
                           Arr(links.val), Arr(<<>>)), sess)
        Parsed(parsed) == Reply(parsed, filterLinks005(parsed.links))
        Tried(p) ==
            Parsed(IF p.ok THEN p.val
                   ELSE [MessageOnly(Fixed("I can help only with Divyang Portal queries (login, registration, or yojanas).")) EXCEPT
                           !.links = Arr(catalogLogin \o catalogRegister),
                           !.yojanas = Arr(<<>>)])
    IN  Tried(JSONparse(StripFences(outcome.text)))


\* ------------------------------------------------------------------------
\* part_001 and part_003
\* ------------------------------------------------------------------------


\* The number of turns each variant keeps after pushing the user's turn.
HistoryWindow001 == 6
HistoryWindow003 == 10

\* session.conversationHistory.push({sender: 'user', message}) and the
\* truncation to the last `window` turns.
pushUserTurn(sess, message, window) ==
    LET Truncated(pushed) ==
            IF Len(pushed) > window THEN SliceLast(pushed, window) ELSE pushed
    IN  [sess EXCEPT !.conversationHistory =
            Truncated(Append(sess.conversationHistory, Turn("user", message)))]

\* session.conversationHistory.push({sender: 'bot', message})
pushBotTurn(sess, message) ==
    [sess EXCEPT !.conversationHistory = Append(@, Turn("bot", message))]

\* part_001 lines 322-346 and part_003 lines 301-325, up to the fetch.
Start_history(body, sess, window) ==
    IF ~ValidBody(body) THEN Done(shortBadRequest(body, Fixed("Invalid request format")), sess)
    ELSE Await("fetch", pushUserTurn(sess, body.message, window), "")

Start_p001(body, sess, hasKey) == Start_history(body, sess, HistoryWindow001)
Start_p003(body, sess, hasKey) == Start_history(body, sess, HistoryWindow003)

\* history.slice(0, -1)
AllButLast(h) == SubSeq(h, 1, Len(h) - 1)

\* The end of both handlers: the bot turn is pushed and the response sent.
respondAndRemember(resp, sess) == Done(resp, pushBotTurn(sess, resp.message))

\* part_001 lines 348-360 and part_003 lines 327-340: the schemes have
\* arrived; processWithGemini returns at once when there is no model.
AfterFetch_history(req, sess, filtered, hasKey, unavailable) ==
    IF ~hasKey THEN respondAndRemember(unavailable, sess)
    ELSE [Await("model", sess, "") EXCEPT
            !.yojanas = filtered,
            !.hist = AllButLast(sess.conversationHistory)]

AfterFetch_p001(req, sess, outcome, hasKey) ==
    AfterFetch_history(req, sess,
        applySmartFilters001(fetchYojanas001(outcome), req.body.message), hasKey,
        Json(200, Fixed("AI service unavailable. Try again later."), Arr(catalogContact), Absent))

AfterFetch_p003(req, sess, outcome, hasKey) ==
    AfterFetch_history(req, sess,
        applySmartFilters003(fetchYojanas(outcome), req.body.message), hasKey,
        Json(200, Fixed("AI service is currently unavailable. Please try again later."),
             Arr(catalogLogin \o catalogRegister \o catalogContact), Absent))

\* A primitive JSON value: assigning a property to it is a TypeError in
\* module (strict) code, as is reading a property of null.
IsPrimitive(json) == json.t \in {"number", "string", "null"}

\* processWithGemini of part_001 (lines 208-318) once the model call has
\* settled: the object it returns.
processWithGemini001(message, filteredYojanas, outcome) ==
    LET Reply(ok, isForm, threw, parsed, links) ==
            IF threw \/ links.threw
            THEN IF isForm
                 THEN Json(200, Fixed("Found n matching schemes:"), Arr(<<>>), Arr(filteredYojanas))
                 ELSE Json(200, Fixed("Sorry, having trouble right now. Try again later."), Arr(catalogContact), Absent)
            ELSE IF ~ok /\ isForm
            THEN Json(200, Fixed("Found n schemes matching your criteria:"), Arr(<<>>), Arr(filteredYojanas))
            ELSE Json(200,
                      IF TruthyStr(parsed.message) THEN parsed.message ELSE Fixed("How can I help?"),
                      Arr(links.val), OrEmpty(parsed.yojanas))
        Validated(ok, isForm, threw, parsed) ==
            Reply(ok, isForm, threw, parsed,
                  validLinks(catalogLogin \o catalogRegister \o catalogContact,
                             parsed.links, FALSE))
        Filled(ok, isForm, parsed0, needsYojanas) ==
            Validated(ok, isForm,
                      \/ outcome.kind # "text"
                      \/ ok /\ parsed0.t = "null"
                      \/ ok /\ IsPrimitive(parsed0) /\ needsYojanas,
                      IF needsYojanas
                      THEN [parsed0 EXCEPT !.yojanas = Arr(filteredYojanas)]
                      ELSE parsed0)
        Parsed(ok, isForm, parsed0) ==
            Filled(ok, isForm, parsed0,
                   /\ Len(filteredYojanas) > 0
                   /\ \/ ~Truthy(parsed0.yojanas)
                      \/ IsArray(parsed0.yojanas) /\ Len(parsed0.yojanas.items) = 0)
        Tried(aiResponse, p) ==
            Parsed(p.ok,
                   /\ Includes(message, <<"G","e","t"," ","Y","o","j","a","n","a"," ","f","o","r"," ","A","g","e",":">>)
                   /\ Len(filteredYojanas) > 0,
                   IF p.ok THEN p.val
                   ELSE [MessageOnly(IF aiResponse # <<>> THEN aiResponse
                                     ELSE Fixed("How can I help you?")) EXCEPT
                           !.links = Arr(<<>>), !.yojanas = Arr(filteredYojanas)])
        Stripped(aiResponse) == Tried(aiResponse, JSONparse(aiResponse))
    IN  Stripped(Trim(StripFences(outcome.text)))

\* processWithGemini of part_003 (lines 199-297) once the model call has
\* settled.
processWithGemini003(message, filteredYojanas, outcome) ==
    LET Reply(threw, parsed, links) ==
            IF threw \/ links.threw
            THEN Json(200, Fixed("I apologize, but I'm having trouble processing your request right now."), Arr(catalogContact), Absent)
            ELSE Json(200, parsed.message, Arr(links.val), OrEmpty(parsed.yojanas))
        Validated(threw, parsed) ==
            Reply(threw, parsed,
                  validLinks(catalogLogin \o catalogRegister \o catalogContact,
                             parsed.links, TRUE))
        Parsed(ok, parsed0) ==
            Validated(outcome.kind # "text" \/ (ok /\ IsPrimitive(parsed0)),
                      IF TruthyStr(parsed0.message) THEN parsed0
                      ELSE [parsed0 EXCEPT !.message = Fixed("I understand your query. How can I assist you further?")])
        Tried(aiResponse, p) ==
            Parsed(p.ok,
                   IF p.ok THEN p.val
                   ELSE [MessageOnly(IF aiResponse # <<>> THEN aiResponse
                                     ELSE Fixed("I understand your query. How can I assist you further?")) EXCEPT
                           !.links = Arr(<<>>),
                           !.yojanas = Arr(SliceFirst(filteredYojanas, 5))])
        Stripped(aiResponse) == Tried(aiResponse, JSONparse(aiResponse))
    IN  Stripped(Trim(StripFences(outcome.text)))

\* part_001 lines 362-368 and part_003 lines 342-347.
AfterModel_p001(req, sess, outcome) ==
    respondAndRemember(processWithGemini001(req.body.message, req.yojanas, outcome), sess)
AfterModel_p003(req, sess, outcome) ==
    respondAndRemember(processWithGemini003(req.body.message, req.yojanas, outcome), sess)


\* ------------------------------------------------------------------------
\* part_002 and part_004
\* ------------------------------------------------------------------------


\* The mark that introduces Devanagari text in a sample message.
DevanagariMark == "~"

\* detectLanguage of part_004: 'mr' when the message has a Devanagari
\* character (the test for 'hi' is the same one, so it never decides).
detectLanguage(message) ==
    IF \E i \in 1..Len(message) : message[i] = DevanagariMark THEN "mr" ELSE "en"

\* session.conversationHistory.push({type: 'user', message, timestamp})
\* after session.lastLanguage = userLanguage; no truncation.
rememberUser(sess, message, userLanguage) ==
    [sess EXCEPT !.lastLanguage = userLanguage,
                 !.conversationHistory = Append(@, Turn("user", message))]

\* part_002 lines 81-104.
Start_p002(body, sess, hasKey) ==
    IF ~ValidBody(body)
    THEN Done([fullBadRequest(body) EXCEPT !.message = Fixed("Priya divyang, ayashasvi vinanti. Krupaya punha prayatna kara.")], sess)
    ELSE Await("fetch", rememberUser(sess, body.message, "mr"), "")

\* part_004 lines 82-106.
Start_p004(body, sess, hasKey) ==
    LET Remember(userLanguage) ==
            Await("fetch", rememberUser(sess, body.message, userLanguage), userLanguage)
    IN  IF ~ValidBody(body) THEN Done(fullBadRequest(body), sess)
        ELSE Remember(IF body.locale # "" THEN body.locale
                      ELSE detectLanguage(body.message))

\* part_002 lines 104-142 and part_004 lines 106-145: the schemes and the
\* last three turns go into the prompt.  stage keeps the local userLanguage
\* of part_004.
AfterFetch_p002(req, sess, outcome) ==
    [Await("model", sess, req.stage) EXCEPT
        !.yojanas = fetchYojanas(outcome),
        !.hist = SliceLast(sess.conversationHistory, 3)]

\* part_002 lines 144-168 and part_004 lines 147-173, when nothing throws:
\* parse, remember the bot turn, respond.  threw: a throw into the catch.
replyOf(outcome, apology) ==
    LET Reply(parsed) ==
            IF outcome.kind # "text" \/ parsed.t = "null" THEN Threw
            ELSE Returned(Json(200, parsed.message, OrEmpty(parsed.links),
                               OrEmpty(parsed.yojanas)))
        Tried(p) ==
            Reply(IF p.ok THEN p.val
                  ELSE [MessageOnly(apology) EXCEPT
                          !.links = Arr(<<>>), !.yojanas = Arr(<<>>)])
    IN  Tried(JSONparse(Trim(StripFences(outcome.text))))

AfterModel_p002(req, sess, outcome) ==
    LET Settle(r) ==
            IF r.threw THEN Done(fullError(Fixed("Priya divyang, maaf kara, servermadhye truti ali ahe.")), sess)
            ELSE respondAndRemember(r.val, sess)
    IN  Settle(replyOf(outcome, Fixed("Priya divyang, maaf kara, kahitari chukla. Krupaya punha prayatna kara.")))

\* What follows when the catch block of part_004 itself throws (lines
\* 175-185 read `session`, which is scoped to the try block): the promise
\* of the async handler rejects.  Express 4 then sends nothing (and the
\* process may exit); Express 5 answers with its own error page.
UnhandledOutcomes == {"hung", "framework"}

AfterModel_p004(req, sess, outcome, unhandled) ==
    LET Settle(r) ==
            IF r.threw
            THEN IF unhandled = "hung" THEN Out("hung", NoResponse, sess)
                 ELSE Done(FrameworkError, sess)
            ELSE respondAndRemember(r.val, sess)
    IN  Settle(replyOf(outcome,
                       IF req.stage = "mr" THEN Fixed("Hay! Maaf kara, kahitari chukla. Krupaya punha prayatna kara.")
                       ELSE IF req.stage = "hi" THEN Fixed("Hay! Maaf karen, kuch galat ho gaya.")
                       ELSE Fixed("Hi! Sorry, something went wrong. Please try again.")))


\* ------------------------------------------------------------------------
\* The server as a state machine
\* ------------------------------------------------------------------------

\* Clients send one request at a time and wait for its response.
Clients == {"c1", "c2"}

\* Session objects live on a heap; the session map holds references, and so
\* does a handler between its awaits (0: no object).
ObjIds == 1..(Cardinality(UserIds) + Cardinality(Clients))

\* The period of the cleanup timer and the idle time it allows, in ms.
SweepIntervalMs == 30 * 60 * 1000
IdleWindowMs == 2 * 60 * 60 * 1000

\* Bounds of the exploration.
MaxRequests == 1
MaxSweeps == 5

\* The session object a variant creates for a new user.
InitialSession(v) ==
    [NewSession EXCEPT !.lastLanguage =
        IF v = "p002" THEN "mr" ELSE IF v = "p004" THEN "en" ELSE ""]

\* What a handler has seen of the outside: how often it has called the
\* scheme source and the model, whether the scheme fetch failed, and what
\* the model call did.
Seen(fetches, models, fetchFailed, reply) ==
    [fetches |-> fetches, models |-> models, fetchFailed |-> fetchFailed,
     reply |-> reply]
NoReply == [kind |-> "none", text |-> <<>>]
SeenNothing == Seen(0, 0, FALSE, NoReply)

\* A request slot of a client: the position of its handler, the request,
\* the handler's session reference and locals, the response, and what the
\* handler has seen.
Request(pc, body, obj, out, seen) ==
    [pc |-> pc, body |-> body, obj |-> obj, stage |-> out.stage,
     yojanas |-> out.yojanas, json |-> out.json, hist |-> out.hist,
     crit |-> out.crit, matched |-> out.matched,
     resp |-> out.resp, seen |-> seen]
NoBody == Body("missing", Undefined, "", "", NoSlots)
IdleRequest == Request("idle", NoBody, 0, Out("idle", NoResponse, NewSession),
                       SeenNothing)

Start(v, body, sess, hasKey) ==
    CASE v = "agent1" -> Start_agent1(body, sess, hasKey)
      [] v = "agent2" -> Start_agent2(body, sess, hasKey)
      [] v = "p000a"  -> Start_p000a(body, sess, hasKey)
      [] v = "p000b"  -> Start_p000b(body, sess, hasKey)
      [] v = "p000c"  -> Start_p000c(body, sess, hasKey)
      [] v = "p001"   -> Start_p001(body, sess, hasKey)
      [] v = "p002"   -> Start_p002(body, sess, hasKey)
      [] v = "p003"   -> Start_p003(body, sess, hasKey)
      [] v = "p004"   -> Start_p004(body, sess, hasKey)
      [] v = "p005"   -> Start_p005(body, sess, hasKey)

AfterFetch(v, req, sess, outcome, hasKey) ==
    CASE v = "agent2" -> AfterFetch_agent2(req, sess, outcome)
      [] v = "p000a"  -> AfterFetch_p000a(req, sess, outcome)
      [] v = "p000b"  -> AfterFetch_p000b(req, sess, outcome)
      [] v = "p001"   -> AfterFetch_p001(req, sess, outcome, hasKey)
      [] v = "p002"   -> AfterFetch_p002(req, sess, outcome)
      [] v = "p003"   -> AfterFetch_p003(req, sess, outcome, hasKey)
      [] v = "p004"   -> AfterFetch_p002(req, sess, outcome)
      [] v = "p005"   -> AfterFetch_p005(req, sess, outcome, hasKey)

AfterModel(v, req, sess, outcome, unhandled) ==
    CASE v = "agent1" -> AfterModel_agent1(req, sess, outcome, TRUE)
      [] v = "agent2" -> AfterModel_agent2(req, sess, outcome)
      [] v = "p000a"  -> AfterModel_p000a(req, sess, outcome)
      [] v = "p000b"  -> AfterModel_p000b(req, sess, outcome)
      [] v = "p000c"  -> AfterModel_agent1(req, sess, outcome, FALSE)
      [] v = "p001"   -> AfterModel_p001(req, sess, outcome)
      [] v = "p002"   -> AfterModel_p002(req, sess, outcome)
      [] v = "p003"   -> AfterModel_p003(req, sess, outcome)
      [] v = "p004"   -> AfterModel_p004(req, sess, outcome, unhandled)
      [] v = "p005"   -> AfterModel_p005(req, sess, outcome)

VARIABLES
    variant,       \* which of the ten programs is running
    hasKey,        \* whether GEMINI_API_KEY is set
    clients,       \* the clients that talk to the server
    userSessions,  \* the session map: user id -> object (0: no entry)
    heap,          \* the session objects
    reqs,          \* the request slot of each client
    now,           \* Date.now() at the last timer tick, in ms
    lastServed,    \* when each user's session last served a request
                   \* (an observation of the run; the programs do not record it)
    served,        \* how many requests have been received
    sweeps,        \* how many times the cleanup has run
    call,          \* the last direct call of a function of the program:
                   \* its arguments and its result
    health         \* GET /api/health: how often it was called and its last
                   \* response

vars == <<variant, hasKey, clients, userSessions, heap, reqs, now, lastServed,
          served, sweeps, call, health>>

\* No function has been called directly.
NoCall == [fn |-> "none"]

\* The objects that the map or a running handler refers to.
Referenced(map, rs) ==
    {map[u] : u \in UserIds} \cup {rs[c].obj : c \in Clients}

\* The heap with the objects nobody refers to any longer reset.
Collect(h, map, rs) ==
    [o \in ObjIds |-> IF o \in Referenced(map, rs) THEN h[o] ELSE NewSession]

\* The object a new session gets.
FreeObj == MinOf(ObjIds \ Referenced(userSessions, reqs))

\* A handler that holds object obj has run up to `out`, having seen `seen`
\* before the call it now makes (if any).
Continue(c, body, obj, out, map, seen) ==
    LET finished == out.pc \in {"done", "hung"}
        r == Request(out.pc, body, IF finished THEN 0 ELSE obj,
                     IF finished
                     THEN [Out(out.pc, out.resp, NewSession) EXCEPT
                             !.crit = out.crit, !.matched = out.matched]
                     ELSE out,
                     [seen EXCEPT
                        !.fetches = @ + (IF out.pc = "fetch" THEN 1 ELSE 0),
                        !.models = @ + (IF out.pc = "model" THEN 1 ELSE 0)])
        rs == [reqs EXCEPT ![c] = r]
        h == IF obj = 0 THEN heap ELSE [heap EXCEPT ![obj] = out.sess]
    IN  /\ reqs' = rs
        /\ userSessions' = map
        /\ heap' = Collect(h, map, rs)
        /\ lastServed' = IF obj # 0 /\ finished /\ variant \in SweepVariants
                         THEN [lastServed EXCEPT ![UserIdOf(body)] = now]
                         ELSE lastServed

Init ==
    /\ variant \in Variants
    /\ hasKey \in BOOLEAN
    /\ variant \in KeyRequiredVariants => hasKey
    /\ clients = {"c1"}
    /\ userSessions = [u \in UserIds |-> 0]
    /\ heap = [o \in ObjIds |-> NewSession]
    /\ reqs = [c \in Clients |-> IdleRequest]
    /\ now = 0
    /\ lastServed = [u \in UserIds |-> Missing]
    /\ served = 0
    /\ sweeps = 0
    /\ call = NoCall
    /\ health = [calls |-> 0, status |-> 0, body |-> [ok |-> FALSE]]

\* A handler that looks up (and creates) the session before it validates
\* the body.
ReceiveEager(c, body, cap) ==
    LET userId == UserIdOf(body)
        uses == variant \in SessionVariants
        had == userSessions[userId] # 0
        obj == IF ~uses THEN 0 ELSE IF had THEN userSessions[userId] ELSE FreeObj
        sess == IF uses /\ had THEN heap[obj] ELSE InitialSession(variant)
        map == IF uses THEN [userSessions EXCEPT ![userId] = obj] ELSE userSessions
    IN  /\ c \in clients
        /\ reqs[c].pc \in {"idle", "done", "hung"}
        /\ served < cap
        /\ served' = served + 1
        /\ Continue(c, body, obj,
                    Start(variant, body, sess, hasKey), map, SeenNothing)
        /\ UNCHANGED <<variant, hasKey, clients, now, sweeps, call, health>>

\* app.post('/api/chat', ...): a request arrives and its handler runs up to
\* its first await or its response.  cap bounds the number of requests of
\* a run.
Receive(c, body, cap) ==
    LET userId == UserIdOf(body)
        uses == variant \in SessionVariants /\ ValidBody(body)
        had == userSessions[userId] # 0
        obj == IF ~uses THEN 0 ELSE IF had THEN userSessions[userId] ELSE FreeObj
        sess == IF uses /\ had THEN heap[obj] ELSE InitialSession(variant)
        map == IF uses THEN [userSessions EXCEPT ![userId] = obj] ELSE userSessions
    IN  /\ c \in clients
        /\ reqs[c].pc \in {"idle", "done", "hung"}
        /\ served < cap
        /\ served' = served + 1
        /\ Continue(c, body, obj,
                    Start(variant, body, sess, hasKey), map, SeenNothing)
        /\ UNCHANGED <<variant, hasKey, clients, now, sweeps, call, health>>

\* The scheme fetch of a waiting handler settles and the handler runs on.
FetchReturn(c, outcome) ==
    LET req == reqs[c]
        sess == IF req.obj = 0 THEN NewSession ELSE heap[req.obj]
    IN  /\ req.pc = "fetch"
        /\ Continue(c, req.body, req.obj,
                    AfterFetch(variant, req, sess, outcome, hasKey), userSessions,
                    [req.seen EXCEPT !.fetchFailed = outcome.kind # "array"])
        /\ UNCHANGED <<variant, hasKey, clients, now, served, sweeps, call, health>>

\* The model call of a waiting handler settles and the handler runs on.
ModelReturn(c, outcome, unhandled) ==
    LET req == reqs[c]
        sess == IF req.obj = 0 THEN NewSession ELSE heap[req.obj]
    IN  /\ req.pc = "model"
        /\ Continue(c, req.body, req.obj,
                    AfterModel(variant, req, sess, outcome, unhandled), userSessions,
                    [req.seen EXCEPT !.reply = outcome])
        /\ UNCHANGED <<variant, hasKey, clients, now, served, sweeps, call, health>>

\* The setInterval callback of part_001 (379-387) and part_003 (357-366):
\* every entry whose session has no lastActivity, or an old one, is deleted.
Expired(session, t) ==
    \/ ~TruthyNum(session.lastActivity)
    \/ t - session.lastActivity > IdleWindowMs

Sweep ==
    LET t == now + SweepIntervalMs
        map == [u \in UserIds |->
                   IF userSessions[u] # 0 /\ Expired(heap[userSessions[u]], t)
                   THEN 0 ELSE userSessions[u]]
    IN  /\ variant \in SweepVariants
        /\ sweeps < MaxSweeps
        /\ sweeps' = sweeps + 1
        /\ now' = t
        /\ userSessions' = map
        /\ heap' = Collect(heap, map, reqs)
        /\ UNCHANGED <<variant, hasKey, clients, reqs, lastServed, served, call, health>>

Next ==
    \/ \E c \in Clients, body \in Bodies : Receive(c, body, MaxRequests)
    \/ \E c \in Clients, outcome \in FetchOutcomes : FetchReturn(c, outcome)
    \/ \E c \in Clients, outcome \in ModelOutcomes, unhandled \in UnhandledOutcomes :
          ModelReturn(c, outcome, unhandled)
    \/ Sweep

Spec == Init /\ [][Next]_vars

\* A second specification for the scheme filters: the variants that filter
\* schemes by rule, with the requests and model replies that reach their
\* filters, over more requests per run.
FilterVariants == {"agent1", "agent2", "p000b", "p005"}
FilterBodies ==
    {Body("string", m, "u1", "", NoSlots) :
        m \in {msgHello, msgYojana, msgYojana25, msgIAm70, msgDeafScheme,
               msgForm, msgForm70}}
FilterModelOutcomes ==
    {[kind |-> "text", text |-> t] :
        t \in {<<"{", "m:hi", "}">>,
               <<"{", "m:hi", "a:25", "}">>,
               <<"{", "m:hi", "a:70", "p:60", "}">>,
               <<"{", "m:", "a:25", "d:deaf", "p:60", "}">>}}
      \cup {[kind |-> "reject", text |-> <<>>]}
MaxFilterRequests == 2

InitFilter == Init /\ variant \in FilterVariants

NextFilter ==
    \/ \E c \in Clients, body \in FilterBodies : Receive(c, body, MaxFilterRequests)
    \/ \E c \in Clients, outcome \in FetchOutcomes : FetchReturn(c, outcome)
    \/ \E c \in Clients, outcome \in FilterModelOutcomes :
          ModelReturn(c, outcome, "hung")

SpecFilter == InitFilter /\ [][NextFilter]_vars

\* A third specification for overlapping requests: two clients send requests
\* for the same userId to a variant that keeps slots in the session, and the
\* handlers interleave at their awaits.
RaceVariants == SlotVariants
RaceBodies ==
    {Body("string", m, "u1", "", NoSlots) :
        m \in {msgYojana25, msgIAm70, msgDeafScheme, msgHello}}
MaxRaceRequests == 2

InitRace ==
    /\ variant \in RaceVariants
    /\ hasKey \in BOOLEAN
    /\ clients = Clients
    /\ userSessions = [u \in UserIds |-> 0]
    /\ heap = [o \in ObjIds |-> NewSession]
    /\ reqs = [c \in Clients |-> IdleRequest]
    /\ now = 0
    /\ lastServed = [u \in UserIds |-> Missing]
    /\ served = 0
    /\ sweeps = 0
    /\ call = NoCall
    /\ health = [calls |-> 0, status |-> 0, body |-> [ok |-> FALSE]]

NextRace ==
    \/ \E c \in Clients, body \in RaceBodies : Receive(c, body, MaxRaceRequests)
    \/ \E c \in Clients, outcome \in FetchOutcomes : FetchReturn(c, outcome)
    \/ \E c \in Clients, outcome \in FilterModelOutcomes :
          ModelReturn(c, outcome, "hung")

SpecRace == InitRace /\ [][NextRace]_vars

\* A fourth specification for the functions of the program taken alone: a
\* function is called directly with arguments drawn from small sets, and
\* the call is recorded with its result.
UnitVariants == SlotVariants
UnitAges == {Null, 25, 70}
UnitDisabilities == {Undefined, <<"h","e","a","r","i","n","g">>}
UnitPercentages == {Null, 60}
UnitPublishers == {Undefined, <<"z","p">>}
UnitCriteria ==
    {Criteria(a, d, p, b) : a \in UnitAges, d \in UnitDisabilities,
                            p \in UnitPercentages, b \in UnitPublishers}

\* Messages around the limits of an age: no number, 0, one digit, two
\* digits, 99, 100 and a number after the word age.
msgAge0 == <<"a","g","e"," ","0">>
msgAge5 == <<"5"," ","y","e","a","r","s">>
msgAge99 == <<"a","g","e"," ","i","s"," ","9","9">>
msgAge100 == <<"i"," ","a","m"," ","1","0","0">>
msgAge150 == <<"a","g","e","1","5","0">>
UnitMessages == {msgHello, msgAge0, msgAge5, msgYojana25, msgAge99, msgAge100, msgAge150}
UnitBodies == {Body("string", m, "u1", "", NoSlots) : m \in UnitMessages}
DetectAgeFunctions == {"detectAge", "detectAge001", "detectAge003"}
MaxUnitRequests == 1

InitUnit == Init /\ variant \in UnitVariants

\* filterYojanas(yojanas, criteria) of the running program is called.
CallFilterYojanas(yojanas, criteria) ==
    /\ call' = [fn |-> "filterYojanas", yojanas |-> yojanas, criteria |-> criteria,
                result |-> IF variant = "p005"
                           THEN filterYojanas005(yojanas, criteria)
                           ELSE filterYojanas000(yojanas, criteria)]
    /\ UNCHANGED <<variant, hasKey, clients, userSessions, heap, reqs, now,
                   lastServed, served, sweeps, health>>

\* detectAge(msg) of part_005 and part_000, of part_001 or of part_003 is
\* called.
CallDetectAge(which, msg) ==
    /\ call' = [fn |-> "detectAge", which |-> which, msg |-> msg,
                result |-> CASE which = "detectAge001" -> detectAge001(msg)
                             [] which = "detectAge003" -> detectAge003(msg)
                             [] OTHER -> detectAge(msg)]
    /\ UNCHANGED <<variant, hasKey, clients, userSessions, heap, reqs, now,
                   lastServed, served, sweeps, health>>

\* The server serves chat requests, and a function is called directly once,
\* in any state of the server, as the last step of a run.
NextUnit ==
    /\ call = NoCall
    /\ \/ \E yojanas \in SchemeLists, criteria \in UnitCriteria :
             CallFilterYojanas(yojanas, criteria)
       \/ \E which \in DetectAgeFunctions, msg \in UnitMessages :
             CallDetectAge(which, msg)
       \/ \E c \in Clients, body \in UnitBodies : Receive(c, body, MaxUnitRequests)
       \/ \E c \in Clients, outcome \in FetchOutcomes : FetchReturn(c, outcome)
       \/ \E c \in Clients, outcome \in FilterModelOutcomes :
             ModelReturn(c, outcome, "hung")

SpecUnit == InitUnit /\ [][NextUnit]_vars

\* A fifth specification for the caps on scheme lists: the variants that
\* filter schemes, over a scheme source that holds more schemes than the
\* largest cap, all of which pass the filters.
CapVariants == {"agent1", "agent2", "p000b", "p001", "p003", "p005"}
LongListLen == 16
LongList ==
    [i \in 1..LongListLen |->
        Scheme(i, <<"a","b","c">>, 0, 100, 40, hearingType, hearingType, <<"z","p">>)]
CapFetchOutcomes ==
    {[kind |-> "array", data |-> l] :
        l \in {LongList, <<scheme1, scheme2, scheme3, scheme4, scheme6>>}}
CapBodies ==
    {Body("string", m, "u1", "", NoSlots) :
        m \in {msgHello, msgYojana25, msgDeafScheme, msgForm, msgForm70}}
MaxCapRequests == 1

InitCap == Init /\ variant \in CapVariants

NextCap ==
    \/ \E c \in Clients, body \in CapBodies : Receive(c, body, MaxCapRequests)
    \/ \E c \in Clients, outcome \in CapFetchOutcomes : FetchReturn(c, outcome)
    \/ \E c \in Clients, outcome \in FilterModelOutcomes :
          ModelReturn(c, outcome, "hung")

SpecCap == InitCap /\ [][NextCap]_vars

\* A sixth specification for the health route: every variant serves chat
\* requests, and GET /api/health is called at any time in between.
HealthBodies ==
    {Body("string", m, "u1", "", NoSlots) : m \in {msgHello, msgLogin, msgYojana25}}
MaxHealthRequests == 1
MaxHealthCalls == 2

\* What a broken health route would send.
healthDown == [status |-> 503, body |-> [ok |-> FALSE]]

\* res.json({ ok: true }): status 200 and the fixed body.
healthResponse == [status |-> 200, body |-> [ok |-> TRUE]]

\* app.get('/api/health', ...): the handler answers at once and touches
\* nothing else.
Health ==
    /\ health.calls < MaxHealthCalls
    /\ health' = [calls |-> health.calls + 1, status |-> healthResponse.status,
                  body |-> healthResponse.body]
    /\ UNCHANGED <<variant, hasKey, clients, userSessions, heap, reqs, now,
                   lastServed, served, sweeps, call>>

NextHealth ==
    \/ \E c \in Clients, body \in HealthBodies : Receive(c, body, MaxHealthRequests)
    \/ \E c \in Clients, outcome \in FetchOutcomes : FetchReturn(c, outcome)
    \/ \E c \in Clients, outcome \in FilterModelOutcomes :
          ModelReturn(c, outcome, "hung")
    \/ Health

SpecHealth == Init /\ [][NextHealth]_vars

\* A seventh specification for the conversation history: the variants that
\* keep one, with one client whose requests follow one another, over enough
\* requests to fill the larger window.
HistoryBodies == {Body("string", msgHello, "u1", "", NoSlots)}
HistoryFetchOutcomes ==
    {[kind |-> "array", data |-> <<scheme1, scheme2>>],
     [kind |-> "network", data |-> <<>>]}
HistoryModelOutcomes ==
    {[kind |-> "text", text |-> <<"{", "m:hi", "}">>],
     [kind |-> "reject", text |-> <<>>]}
MaxHistoryRequests == 6

InitHistory == Init /\ variant \in HistoryVariants

NextHistory ==
    \/ \E c \in Clients, body \in HistoryBodies : Receive(c, body, MaxHistoryRequests)
    \/ \E c \in Clients, outcome \in HistoryFetchOutcomes : FetchReturn(c, outcome)
    \/ \E c \in Clients, outcome \in HistoryModelOutcomes, unhandled \in UnhandledOutcomes :
          ModelReturn(c, outcome, unhandled)

SpecHistory == InitHistory /\ [][NextHistory]_vars

\* An eighth specification for overlapping requests on one history: two
\* clients, each with a message of its own, send requests for the same
\* userId to part_001 or part_003.
WindowVariants == {"p001", "p003"}
MessageOf(c) == IF c = "c1" THEN msgHello ELSE msgYojana
MaxHistoryRaceRequests == 2

InitHistoryRace ==
    /\ variant \in WindowVariants
    /\ hasKey \in BOOLEAN
    /\ clients = Clients
    /\ userSessions = [u \in UserIds |-> 0]
    /\ heap = [o \in ObjIds |-> NewSession]
    /\ reqs = [c \in Clients |-> IdleRequest]
    /\ now = 0
    /\ lastServed = [u \in UserIds |-> Missing]
    /\ served = 0
    /\ sweeps = 0
    /\ call = NoCall
    /\ health = [calls |-> 0, status |-> 0, body |-> [ok |-> FALSE]]

NextHistoryRace ==
    \/ \E c \in Clients :
          Receive(c, Body("string", MessageOf(c), "u1", "", NoSlots),
                  MaxHistoryRaceRequests)
    \/ \E c \in Clients, outcome \in HistoryFetchOutcomes : FetchReturn(c, outcome)
    \/ \E c \in Clients, outcome \in HistoryModelOutcomes :
          ModelReturn(c, outcome, "hung")

SpecHistoryRace == InitHistoryRace /\ [][NextHistoryRace]_vars

\* A ninth specification for rejected requests: every variant receives
\* valid requests and requests that fail validation, for a user with a
\* session and for a user without.
RejectBodies ==
    {Body("string", msgHello, "u1", "", NoSlots),
     Body("string", msgIAm70, "u1", "", NoSlots),
     Body("string", <<>>, "u1", "", NoSlots),
     Body("missing", Undefined, "u2", "", NoSlots),
     Body("number", Undefined, "", "", NoSlots)}
MaxRejectRequests == 2

NextReject ==
    \/ \E c \in Clients, body \in RejectBodies : Receive(c, body, MaxRejectRequests)
    \/ \E c \in Clients, outcome \in HistoryFetchOutcomes : FetchReturn(c, outcome)
    \/ \E c \in Clients, outcome \in HistoryModelOutcomes :
          ModelReturn(c, outcome, "hung")

SpecReject == Init /\ [][NextReject]_vars

\* A tenth specification for sessions of several users: two clients send
\* requests for two userIds and without a userId to the variants that keep
\* sessions, and the handlers interleave at their awaits.
UsersBodies ==
    {Body("string", msgIAm70, "u1", "", NoSlots),
     Body("string", msgYojana25, "u2", "", NoSlots),
     Body("string", msgHello, "", "", NoSlots)}
MaxUsersRequests == 2

InitUsers ==
    /\ variant \in SessionVariants
    /\ hasKey \in BOOLEAN
    /\ variant \in KeyRequiredVariants => hasKey
    /\ clients = Clients
    /\ userSessions = [u \in UserIds |-> 0]
    /\ heap = [o \in ObjIds |-> NewSession]
    /\ reqs = [c \in Clients |-> IdleRequest]
    /\ now = 0
    /\ lastServed = [u \in UserIds |-> Missing]
    /\ served = 0
    /\ sweeps = 0
    /\ call = NoCall
    /\ health = [calls |-> 0, status |-> 0, body |-> [ok |-> FALSE]]

NextUsers ==
    \/ \E c \in Clients, body \in UsersBodies : Receive(c, body, MaxUsersRequests)
    \/ \E c \in Clients, outcome \in HistoryFetchOutcomes : FetchReturn(c, outcome)
    \/ \E c \in Clients, outcome \in HistoryModelOutcomes :
          ModelReturn(c, outcome, "hung")

SpecUsers == InitUsers /\ [][NextUsers]_vars

\* An eleventh specification for the login and register answers of
\* part_000 (second program) and part_005: messages that fill the slots of
\* the session and messages with 'login' or 'register' next to a number and
\* a disability keyword.
LoginVariants == {"p000b", "p005"}
msgLogin40Blind == <<"L","o","g","i","n"," ","4","0"," ","b","l","i","n","d">>
msgRegister50Deaf == <<"r","e","g","i","s","t","e","r"," ","5","0"," ","d","e","a","f">>
msgRegisterLogin30 ==
    <<"r","e","g","i","s","t","e","r"," ","l","o","g","i","n"," ","3","0"," ","d","e","a","f">>
LoginMessages == {msgLogin40Blind, msgRegister50Deaf, msgRegisterLogin30}
LoginBodies ==
    {Body("string", m, "u1", "", NoSlots) :
        m \in LoginMessages \cup {msgIAm70, msgDeafScheme}}
MaxLoginRequests == 3

InitLogin == Init /\ variant \in LoginVariants

NextLogin ==
    \/ \E c \in Clients, body \in LoginBodies : Receive(c, body, MaxLoginRequests)
    \/ \E c \in Clients, outcome \in HistoryFetchOutcomes : FetchReturn(c, outcome)
    \/ \E c \in Clients, outcome \in HistoryModelOutcomes :
          ModelReturn(c, outcome, "hung")

SpecLogin == InitLogin /\ [][NextLogin]_vars

\* ------------------------------------------------------------------------
\* Properties
\* ------------------------------------------------------------------------

\* The response of client c's request is out.
Answered(c) == reqs[c].pc = "done"
\* The response is res.json(...) with status 200.
Ok(c) == Answered(c) /\ reqs[c].resp.status = 200
\* The items of a response property that is an array (none otherwise).
ItemsOf(v) == IF IsArray(v) THEN v.items ELSE <<>>

\* C1: every request whose message is missing, not a string or empty is
\* answered, in every variant, with status 400 and a body that has a
\* non-empty errors array, links = [] and yojanas = [].
C1_BadRequestShape ==
    \A c \in Clients :
        Answered(c) /\ ~ValidBody(reqs[c].body) =>
            /\ reqs[c].resp.status = 400
            /\ IsArray(reqs[c].resp.errors)
            /\ Len(reqs[c].resp.errors.items) > 0
            /\ reqs[c].resp.links = Arr(<<>>)
            /\ reqs[c].resp.yojanas = Arr(<<>>)

\* C2: in every variant that calls the model, whatever the model replies,
\* every link of a 200 response has the url of a link of the catalog.
C2_LinksFromCatalog ==
    \A c \in Clients :
        Ok(c) /\ reqs[c].seen.models > 0 =>
            \A i \in 1..Len(ItemsOf(reqs[c].resp.links)) :
                \E k \in 1..Len(CatalogOf(variant)) :
                    CatalogOf(variant)[k].url = reqs[c].resp.links.items[i].url

\* C3: the coercer returns, for every text of the model (JSON of any type,
\* fenced, garbage), an object with a message property.  Observed where
\* agent.js holds the coerced value across its scheme fetch.
C3_CoercerYieldsMessage ==
    \A c \in Clients :
        variant = "agent2" /\ reqs[c].pc = "fetch" =>
            /\ reqs[c].json.t = "object"
            /\ reqs[c].json.message # Undefined

\* C4: a handler that throws after validation answers once, with status 500
\* and the fixed body {message, links: [], yojanas: []} without exception
\* text; no request is left without a response.
C4_FixedErrorResponse ==
    \A c \in Clients :
        /\ reqs[c].pc # "hung"
        /\ Answered(c) /\ reqs[c].resp.status = 500 =>
              /\ ~reqs[c].resp.raw
              /\ reqs[c].resp.message # Undefined
              /\ reqs[c].resp.links = Arr(<<>>)
              /\ reqs[c].resp.yojanas = Arr(<<>>)

\* Start_Age <= age <= UpTo_Age, both bounds being there.
InAgeRange(y, age) ==
    /\ y.Start_Age # Missing
    /\ y.UpTo_Age # Missing
    /\ y.Start_Age <= age
    /\ age <= y.UpTo_Age

\* The same with a missing or zero Start_Age read as 0 and a missing or
\* zero UpTo_Age read as 100.
InDefaultedAgeRange(y, age) ==
    /\ (IF TruthyNum(y.Start_Age) THEN y.Start_Age ELSE 0) <= age
    /\ age <= (IF TruthyNum(y.UpTo_Age) THEN y.UpTo_Age ELSE 100)

\* C5 as claimed: whenever a scheme filter has been invoked with an age
\* criterion, every scheme that the variant returns satisfies
\* Start_Age <= age <= UpTo_Age.
C5_ReturnedInAgeRange ==
    \A c \in Clients :
        Ok(c) /\ TruthyNum(reqs[c].crit.age) =>
            \A i \in 1..Len(ItemsOf(reqs[c].resp.yojanas)) :
                InAgeRange(reqs[c].resp.yojanas.items[i], reqs[c].crit.age)

\* C5, amended: whenever a scheme filter has been invoked with an age
\* criterion and has kept at least one scheme, every scheme that the
\* variant returns satisfies Start_Age <= age <= UpTo_Age, where part_005
\* reads a missing or zero Start_Age as 0 and a missing or zero UpTo_Age as
\* 100.  (When the filter keeps nothing, agent.js returns the first three
\* schemes unfiltered.)
C5_MatchedInAgeRange ==
    \A c \in Clients :
        Ok(c) /\ TruthyNum(reqs[c].crit.age) /\ reqs[c].matched > 0 =>
            \A i \in 1..Len(ItemsOf(reqs[c].resp.yojanas)) :
                IF variant = "p005"
                THEN InDefaultedAgeRange(reqs[c].resp.yojanas.items[i], reqs[c].crit.age)
                ELSE InAgeRange(reqs[c].resp.yojanas.items[i], reqs[c].crit.age)

\* A filter has run with an age criterion, has kept schemes, and the
\* response returns schemes.
C5_Witness ==
    \E c \in Clients :
        /\ Ok(c)
        /\ TruthyNum(reqs[c].crit.age)
        /\ reqs[c].matched > 0
        /\ Len(ItemsOf(reqs[c].resp.yojanas)) > 0

\* C6: whenever a percentage criterion P is supplied to the scheme filter
\* (also through a structured message 'Age: A, Disability: D, Percentage:
\* P'), every returned scheme requires a percentage <= P and, when an age A
\* is supplied with it, has A in its age range.
C6_ReturnedWithinPercentage ==
    \A c \in Clients :
        Ok(c) /\ TruthyNum(reqs[c].crit.percentage) =>
            \A i \in 1..Len(ItemsOf(reqs[c].resp.yojanas)) :
                /\ reqs[c].resp.yojanas.items[i].pct # Missing
                /\ reqs[c].resp.yojanas.items[i].pct <= reqs[c].crit.percentage
                /\ TruthyNum(reqs[c].crit.age) =>
                      InDefaultedAgeRange(reqs[c].resp.yojanas.items[i],
                                          reqs[c].crit.age)

\* C7: when the scheme fetch fails (network error, non-2xx status, body
\* that is no array), the handler does not answer 500 for it: a response
\* that follows the failed fetch has status 200 and its yojanas, if any,
\* are an array.
C7_FetchFailureStill200 ==
    [][\A c \in Clients :
          /\ reqs[c].pc = "fetch"
          /\ reqs'[c].pc = "done"
          /\ reqs'[c].seen.fetchFailed
          => /\ reqs'[c].resp.status = 200
             /\ reqs'[c].resp.yojanas # NotArr]_vars

\* A reply of the model that is no JSON at all: text without braces that
\* does not parse.
IsProse(reply) ==
    /\ reply.kind = "text"
    /\ Trim(reply.text) # <<>>
    /\ BraceMatch(reply.text) = <<>>
    /\ ~JSONparse(Trim(StripFences(reply.text))).ok

\* C8: when the model returns text that is no JSON (and the scheme fetch
\* has not failed), the request is answered with status 200, the raw text
\* as message and links = [].
C8_ProseBecomesMessage ==
    \A c \in Clients :
        Answered(c) /\ IsProse(reqs[c].seen.reply) /\ ~reqs[c].seen.fetchFailed =>
            /\ reqs[c].resp.status = 200
            /\ \/ reqs[c].resp.message = reqs[c].seen.reply.text
               \/ reqs[c].resp.message = Trim(reqs[c].seen.reply.text)
            /\ reqs[c].resp.links = Arr(<<>>)

\* The variants that validate the links of the model's reply.
SanitizingVariants == {"agent1", "agent2", "p000b", "p000c", "p001", "p003", "p005"}

\* The links that the model's reply proposes.
Proposed(reply) == coerceGeminiJson(Trim(StripFences(reply.text))).links

\* The urls of a list of links.
Urls(links) == [i \in 1..Len(links) |-> links[i].url]

\* C9: a link that the model proposes is in the response if and only if its
\* url equals the url of a catalog link; a link with another url is dropped
\* even when its label is the label of a catalog link.
C9_LinkKeptIffUrlKnown ==
    \A c \in Clients :
        LET Known(l) == \E k \in 1..Len(CatalogOf(variant)) :
                            CatalogOf(variant)[k].url = l.url
            KeptByUrl(proposed) ==
                /\ variant \in SanitizingVariants
                /\ Ok(c)
                /\ reqs[c].seen.reply.kind = "text"
                /\ IsArray(proposed)
                /\ \A i \in 1..Len(proposed.items) : proposed.items[i] # NullLink
                => Urls(ItemsOf(reqs[c].resp.links)) =
                      Urls(SelectSeq(proposed.items, Known))
        IN  KeptByUrl(Proposed(reqs[c].seen.reply))

\* C10: the cleanup removes a session only when it has been idle for more
\* than two hours: a session that has served a request within the last two
\* hours is in the map, with its history, after any sweep.
C10_RecentSessionSurvives ==
    \A u \in UserIds :
        /\ variant \in SweepVariants
        /\ sweeps > 0
        /\ lastServed[u] # Missing
        /\ now - lastServed[u] <= IdleWindowMs
        => /\ userSessions[u] # 0
           /\ Len(heap[userSessions[u]].conversationHistory) > 0

\* C11: two overlapping requests for one userId share the session object
\* without protection, so that a slot value one of them wrote is lost.  In
\* part_000 the handler writes session.age before it awaits the schemes and
\* reads it again afterwards: the age its answer filters by is the age that
\* is in the shared session when the fetch returns, whoever wrote it.
C11_AnswerUsesSharedAge ==
    [][\A c \in Clients :
          /\ variant = "p000b"
          /\ reqs[c].pc = "fetch"
          /\ reqs[c].stage = "session"
          /\ reqs'[c].pc = "done"
          /\ reqs'[c].resp.status = 200
          => reqs'[c].crit.age = heap[reqs[c].obj].age]_vars

\* A request has detected an age of its own, has written it to the session,
\* and has been answered for another age: its update was lost to the request
\* of the other client, which is for the same userId.
C11_LostUpdate ==
    \E c \in Clients, d \in Clients :
        /\ c # d
        /\ variant = "p000b"
        /\ Ok(c)
        /\ reqs[d].pc # "idle"
        /\ UserIdOf(reqs[c].body) = UserIdOf(reqs[d].body)
        /\ TruthyNum(detectAge(reqs[c].body.message))
        /\ TruthyNum(reqs[c].crit.age)
        /\ reqs[c].crit.age # detectAge(reqs[c].body.message)
        /\ reqs[c].crit.age = detectAge(reqs[d].body.message)

\* What detectDisability finds in a message, in the variant that runs.
DetectedDisability(msg) ==
    IF variant = "p005" THEN detectDisability005(msg) ELSE detectDisability000(msg)

\* C12: a step that processes a message in which no age (no disability) is
\* detected leaves the age (the disability) of the user's session as it
\* was, and no step makes a slot that is not null become null.
C12_SlotsAreKept ==
    [][\A u \in UserIds :
          userSessions[u] # 0 =>
             /\ userSessions'[u] = userSessions[u]
             /\ TruthyNum(heap[userSessions[u]].age)
                   => TruthyNum(heap'[userSessions[u]].age)
             /\ TruthyStr(heap[userSessions[u]].disability)
                   => TruthyStr(heap'[userSessions[u]].disability)
             /\ \A c \in Clients :
                   reqs'[c] # reqs[c] /\ UserIdOf(reqs'[c].body) = u =>
                      /\ ~TruthyNum(detectAge(reqs'[c].body.message))
                            => heap'[userSessions[u]].age = heap[userSessions[u]].age
                      /\ ~TruthyStr(DetectedDisability(reqs'[c].body.message))
                            => heap'[userSessions[u]].disability
                                  = heap[userSessions[u]].disability]_vars

\* The second request of a user, in which neither an age nor a disability
\* is detected, has passed the detection, and the session still has the
\* age or the disability that the first request left.
C12_SlotKeptAfterSilentMessage ==
    \E c \in Clients :
        /\ variant \in SlotVariants
        /\ clients = {c}
        /\ served = 2
        /\ reqs[c].pc \in {"done", "model"}
        /\ ~TruthyNum(detectAge(reqs[c].body.message))
        /\ ~TruthyStr(DetectedDisability(reqs[c].body.message))
        /\ userSessions[UserIdOf(reqs[c].body)] # 0
        /\ \/ TruthyNum(heap[userSessions[UserIdOf(reqs[c].body)]].age)
           \/ TruthyStr(heap[userSessions[UserIdOf(reqs[c].body)]].disability)

\* C13: every 200 response, on every branch of every variant, has a string
\* message, an array links and an array yojanas.
C13_OkResponseShape ==
    \A c \in Clients :
        Ok(c) =>
            /\ reqs[c].resp.message # Undefined
            /\ IsArray(reqs[c].resp.links)
            /\ IsArray(reqs[c].resp.yojanas)

\* The disability-type text of a scheme as the variant's filter reads it.
DisabilityText(y) ==
    IF variant = "p000b" THEN y.DisabilityType ELSE y.tblDivyangTypes

\* Two texts overlap: neither is empty and, case-insensitively, one contains
\* the other.
Overlap(a, b) ==
    /\ a # <<>>
    /\ b # <<>>
    /\ Includes(ToLower(a), ToLower(b)) \/ Includes(ToLower(b), ToLower(a))

\* The text inside the first parentheses of a disability-type text, which
\* part_005 compares in place of the whole text; the text itself without.
InParentheses(a) == IF ParenMatch(a).found THEN ParenMatch(a).text ELSE a

\* C14: when a disability criterion is given, every returned scheme has a
\* disability-type text that is there, is not empty and overlaps with the
\* criterion (as a whole or by its parenthesised part).
C14_ReturnedOverlapDisability ==
    \A c \in Clients :
        Ok(c) /\ TruthyStr(reqs[c].crit.disabilityType) =>
            \A i \in 1..Len(ItemsOf(reqs[c].resp.yojanas)) :
                /\ TruthyStr(DisabilityText(reqs[c].resp.yojanas.items[i]))
                /\ \/ Overlap(DisabilityText(reqs[c].resp.yojanas.items[i]),
                              reqs[c].crit.disabilityType)
                   \/ Overlap(InParentheses(DisabilityText(reqs[c].resp.yojanas.items[i])),
                              reqs[c].crit.disabilityType)

\* The YojanaIds of a list of schemes, in order.
IdsOf(yojanas) == [i \in 1..Len(yojanas) |-> yojanas[i].YojanaId]

\* Scheme y passes every criterion that is supplied (is truthy), as the
\* running program's filter tests that criterion; part_000's filter takes
\* an age and a disability type only.
AcceptedBySupplied(y, criteria) ==
    IF variant = "p005"
    THEN /\ TruthyNum(criteria.age) => ageMatch005(y, criteria.age)
         /\ TruthyStr(criteria.disabilityType) =>
                disabilityMatch005(y, criteria.disabilityType)
         /\ TruthyNum(criteria.percentage) =>
                percentageMatch005(y, criteria.percentage)
         /\ TruthyStr(criteria.publisher) =>
                publisherMatch005(y, criteria.publisher)
    ELSE /\ TruthyNum(criteria.age) => ageMatch000(y, criteria.age)
         /\ TruthyStr(criteria.disabilityType) =>
                disabilityMatch000(y, criteria.disabilityType)

\* The ids of the schemes of a list that pass every supplied criterion.
ExpectedIds(yojanas, criteria) ==
    LET Keep(y) == AcceptedBySupplied(y, criteria)
    IN  IdsOf(SelectSeq(yojanas, Keep))

\* A direct call of filterYojanas has returned.
FilterReturned == call.fn = "filterYojanas" /\ ~call.result.threw

C16_ModelFailureIs500 ==
    \A c \in Clients :
        Answered(c) /\ reqs[c].seen.reply.kind = "reject" =>
            /\ reqs[c].resp.status = 500
            /\ reqs[c].resp.message # Undefined

\* The cap of a variant on its scheme lists: slice(0, 3) in agent.js and
\* part_000, slice(0, 10) in part_001, slice(0, 15) in part_003; part_005
\* has no slice, and is given the largest of the caps.
CapOf(v) ==
    CASE v \in {"agent1", "agent2", "p000b"} -> 3
      [] v = "p001" -> 10
      [] OTHER -> 15

\* C17: in every variant that filters schemes, the list handed to the
\* prompt builder and the list returned from the rule-based filter never
\* have more schemes than the variant's cap.
C17_ListsWithinCap ==
    \A c \in Clients :
        variant \in CapVariants =>
            /\ Len(reqs[c].yojanas) <= CapOf(variant)
            /\ Ok(c) /\ reqs[c].matched # Missing =>
                   Len(ItemsOf(reqs[c].resp.yojanas)) <= CapOf(variant)

\* C18: in the rule-based variants every request whose message contains
\* 'login', in any case, is answered with status 200, with links equal to
\* the catalog's login entry and with yojanas = [].
C18_LoginAnswer ==
    \A c \in Clients :
        /\ variant \in SlotVariants
        /\ Answered(c)
        /\ ValidBody(reqs[c].body)
        /\ Includes(ToLower(reqs[c].body.message), <<"l","o","g","i","n">>)
        => /\ reqs[c].resp.status = 200
           /\ reqs[c].resp.links = Arr(catalogLogin)
           /\ reqs[c].resp.yojanas = Arr(<<>>)

\* An age is null or an integer between 1 and 100.
AgeOrNull(age) == age = Null \/ age \in 1..100

\* C19: in every reachable state the age stored in every session is null or
\* an integer between 1 and 100, and so is the value that detectAge has
\* returned for a message.
C19_AgesInRange ==
    /\ \A o \in ObjIds : AgeOrNull(heap[o].age)
    /\ \A c \in Clients : reqs[c].pc # "idle" => AgeOrNull(detectAge(reqs[c].body.message))
    /\ call.fn = "detectAge" => AgeOrNull(call.result)

\* A session holds an age that a message has given, and detectAge has
\* returned null for a message whose number is outside 1..100.
C19_AgeStoredAndRejected ==
    /\ \E u \in UserIds : userSessions[u] # 0 /\ heap[userSessions[u]].age \in 1..100
    /\ call.fn = "detectAge"
    /\ call.msg \in {msgAge0, msgAge100}
    /\ call.result = Null

\* C20: every call of GET /api/health, in whatever state and between
\* whatever chat requests, is answered with status 200 and the body
\* {ok: true}, and changes nothing of the server's state.
C20_HealthIsFixed ==
    [][health'.calls # health.calls =>
          /\ health'.status = 200
          /\ health'.body = [ok |-> TRUE]
          /\ UNCHANGED <<variant, hasKey, userSessions, heap, reqs, now, sweeps>>]_vars

\* The health route has been called twice and has answered, and a chat
\* handler is waiting for the model or the scheme source with a session in
\* the map.
C20_HealthCalledDuringChat ==
    /\ health.calls = 2
    /\ health.status = 200
    /\ \E c \in Clients : reqs[c].pc \in {"fetch", "model"}
    /\ \E u \in UserIds : userSessions[u] # 0

\* The conversation history of user u's session (empty without a session).
HistoryOf(u) ==
    IF userSessions[u] = 0 THEN <<>> ELSE heap[userSessions[u]].conversationHistory

\* C21: in the variants that truncate the history, a session's
\* conversationHistory never holds more turns than the window: 6 in
\* part_001, 10 in part_003.
C21_HistoryWithinWindow ==
    \A u \in UserIds :
        /\ variant = "p001" => Len(HistoryOf(u)) <= HistoryWindow001
        /\ variant = "p003" => Len(HistoryOf(u)) <= HistoryWindow003

\* The session of the user of client c's request (a new one without).
SessionOf(c) ==
    IF userSessions[UserIdOf(reqs[c].body)] = 0 THEN NewSession
    ELSE heap[userSessions[UserIdOf(reqs[c].body)]]

\* Client c's request to part_005 was a general scheme query that a filter
\* has answered, with an age and a disability known: detected in the message
\* (and then stored) or remembered in the session.
BothKnown005(c) ==
    /\ variant = "p005"
    /\ Ok(c)
    /\ isYojanaQuery(reqs[c].body.message)
    /\ ~parseStructuredQuery005(reqs[c].body.message).found
    /\ reqs[c].matched # Missing
    /\ reqs[c].crit.publisher = Undefined
    /\ TruthyNum(SessionOf(c).age)
    /\ TruthyStr(SessionOf(c).disability)

\* C22: in part_005, for a scheme query where both an age and a disability
\* are known, every returned scheme has the age in its range and matches the
\* disability.
C22_BothCriteriaApplied ==
    \A c \in Clients :
        BothKnown005(c) =>
            \A i \in 1..Len(ItemsOf(reqs[c].resp.yojanas)) :
                /\ InDefaultedAgeRange(reqs[c].resp.yojanas.items[i], SessionOf(c).age)
                /\ disabilityMatch005(reqs[c].resp.yojanas.items[i], SessionOf(c).disability)

\* C23: in the static-table variant a scheme query is answered by asking
\* for the first item that its context does not supply, in the order age,
\* disability type, percentage, and a scheme query whose context supplies
\* all three reaches the filter and is answered with at most 3 schemes.
C23_AsksFirstMissingThenFilters ==
    \A c \in Clients :
        /\ variant = "agent1"
        /\ Answered(c)
        /\ ValidBody(reqs[c].body)
        /\ MentionsYojana(reqs[c].body.message)
        => IF ~TruthyNum(reqs[c].body.slots.age)
           THEN reqs[c].resp.message = Fixed("Please tell me your age so I can suggest suitable Yojanas.")
           ELSE IF ~TruthyStr(reqs[c].body.slots.disability)
           THEN reqs[c].resp.message = Fixed("Please tell me your disability type.")
           ELSE IF ~TruthyNum(reqs[c].body.slots.percentage)
           THEN reqs[c].resp.message = Fixed("Please tell me your disability percentage.")
           ELSE /\ reqs[c].matched # Missing
                /\ IsArray(reqs[c].resp.yojanas)
                /\ Len(reqs[c].resp.yojanas.items) <= 3

\* The prompts that ask for the age: part_000 line 355 and part_005 line
\* 285.
AskAgePrompts ==
    {Fixed("Please tell me your age so I can suggest the best schemes for you."),
     Fixed("Please provide your age and disability type to suggest suitable schemes.")}

\* User u's session holds an age.
AgeStored(u) == userSessions[u] # 0 /\ TruthyNum(heap[userSessions[u]].age)

\* C24: in the session-slot variants, once an age is stored in a user's
\* session, no scheme query of that user that is answered afterwards gets
\* the prompt that asks for the age.
C24_NoAgePromptOnceStored ==
    [][\A c \in Clients :
          /\ variant \in SlotVariants
          /\ reqs'[c] # reqs[c]
          /\ reqs'[c].pc = "done"
          /\ ValidBody(reqs'[c].body)
          /\ isYojanaQuery(reqs'[c].body.message)
          /\ AgeStored(UserIdOf(reqs'[c].body))
          => reqs'[c].resp.message \notin AskAgePrompts]_vars

\* A second request, a scheme query that names no age, has been answered
\* for a user whose session holds the age of the first request, and not
\* with a 400.
C24_QueryAfterAgeStored ==
    \E c \in Clients :
        /\ variant \in SlotVariants
        /\ served = 2
        /\ Ok(c)
        /\ reqs[c].body.message = msgYojana
        /\ AgeStored(UserIdOf(reqs[c].body))

\* C25: in the agent.js variants, when the filters keep no scheme the
\* response's yojanas are the first 3 schemes of the unfiltered source list
\* (the static table, or what the scheme source has just returned), so the
\* returned list is empty only when the source list is empty.
C25_FallbackFirstThree ==
    [][\A c \in Clients, outcome \in FetchOutcomes :
          /\ variant = "agent2"
          /\ FetchReturn(c, outcome)
          /\ reqs'[c].pc = "done"
          /\ reqs'[c].resp.status = 200
          /\ reqs'[c].matched # Missing
          => /\ reqs'[c].matched = 0 =>
                  reqs'[c].resp.yojanas = Arr(SliceFirst(outcome.data, 3))
             /\ reqs'[c].resp.yojanas = Arr(<<>>) => outcome.data = <<>>]_vars

\* The filters of the second program of agent.js have kept nothing of a
\* source of several schemes, and the response carries three schemes.
C25_FallbackTaken ==
    \E c \in Clients :
        /\ variant = "agent2"
        /\ Ok(c)
        /\ reqs[c].matched = 0
        /\ Len(ItemsOf(reqs[c].resp.yojanas)) = 3

\* The last element of a non-empty sequence.
LastOf(h) == h[Len(h)]

\* C26: in part_001 and part_003, when a handler hands the history to the
\* model, the one turn it leaves out is its own request's user turn, so that
\* the history handed over holds every earlier turn of the session and not
\* the request's own message, also with another request in flight.
C26_HistoryOmitsOwnTurn ==
    [][\A c \in Clients :
          /\ variant \in WindowVariants
          /\ reqs[c].pc = "fetch"
          /\ reqs'[c].pc = "model"
          => /\ heap[reqs[c].obj].conversationHistory # <<>>
             /\ LastOf(heap[reqs[c].obj].conversationHistory) =
                    Turn("user", reqs[c].body.message)
             /\ reqs'[c].hist = AllButLast(heap[reqs[c].obj].conversationHistory)]_vars

\* C27: a chat request that is rejected with 400 changes no state: the
\* session map and every session (its turns and slots) stay as they are, and
\* the handler has made no scheme fetch and no model call.
C27_RejectedChangesNothing ==
    [][\A c \in Clients :
          /\ reqs'[c] # reqs[c]
          /\ reqs'[c].pc = "done"
          /\ reqs'[c].resp.status = 400
          => /\ UNCHANGED <<userSessions, heap>>
             /\ reqs'[c].seen.fetches = 0
             /\ reqs'[c].seen.models = 0]_vars

\* A request of a user without a session has been rejected with 400 after
\* another user's request has created a session: the one session is there,
\* the other is not.
C27_RejectedWithoutSession ==
    \E c \in Clients :
        /\ Answered(c)
        /\ reqs[c].resp.status = 400
        /\ UserIdOf(reqs[c].body) = "u2"
        /\ userSessions["u2"] = 0
        /\ userSessions["u1"] # 0
        /\ variant \in SessionVariants

\* The session key that a request names: its userId, 'default' without.
NamedUser(body) == IF body.userId = "" THEN "default" ELSE body.userId

\* User u's map entry and session object are the same before and after the
\* step.
SessionUntouched(u) ==
    /\ userSessions'[u] = userSessions[u]
    /\ userSessions[u] # 0 => heap'[userSessions[u]] = heap[userSessions[u]]

\* C28: sessions of distinct userIds do not interfere: a step of a handler
\* of a request for one user leaves the map entry and the session of every
\* other user as they are (a handler's response and session update are
\* computed from its request, its own session and the replies it gets), and
\* a handler of a request without userId works on the session of 'default'.
C28_SessionsDoNotInterfere ==
    [][\A c \in Clients :
          reqs'[c] # reqs[c] =>
              /\ \A u \in UserIds \ {NamedUser(reqs'[c].body)} : SessionUntouched(u)
              /\ reqs'[c].pc \in {"fetch", "model"} /\ reqs'[c].body.userId = "" =>
                     reqs'[c].obj = userSessions'["default"]]_vars

\* Two users have sessions that differ, the handler of a request without
\* userId is waiting on the session of 'default', and both clients have sent
\* requests.
C28_SeveralSessions ==
    /\ userSessions["u1"] # 0
    /\ userSessions["default"] # 0
    /\ userSessions["u1"] # userSessions["default"]
    /\ heap[userSessions["u1"]] # heap[userSessions["default"]]
    /\ \E c \in Clients :
          /\ reqs[c].pc \in {"fetch", "model"}
          /\ reqs[c].body.userId = ""
          /\ reqs[c].obj = userSessions["default"]

\* The turns of h are by turns of the user and of the bot.
Alternating(h) == \A i \in 1..(Len(h) - 1) : h[i].sender # h[i + 1].sender

\* C29: with the requests of a user handled one at a time, after a chat
\* request that ended in 200 or in 500 the conversationHistory of its session
\* is a sequence of strictly alternating user and bot turns that ends with a
\* bot turn.
C29_HistoryAlternates ==
    \A c \in clients :
        /\ variant \in HistoryVariants
        /\ reqs[c].pc = "done"
        /\ reqs[c].resp.status \in {200, 500}
        => /\ Alternating(HistoryOf(NamedUser(reqs[c].body)))
           /\ HistoryOf(NamedUser(reqs[c].body)) # <<>>
           /\ LastOf(HistoryOf(NamedUser(reqs[c].body))).sender = "bot"

\* The message has the word, in any case.
HasWord(message, word) == Includes(ToLower(message), word)

\* The age and the disability of user u's session are the same before and
\* after the step (a session that is not there has none).
SlotsUntouched(u) ==
    userSessions[u] # 0 =>
        /\ userSessions'[u] = userSessions[u]
        /\ heap'[userSessions[u]].age = heap[userSessions[u]].age
        /\ heap'[userSessions[u]].disability = heap[userSessions[u]].disability

\* C30: in part_000 (second program) and part_005 a message with 'login' or
\* 'register' is answered at once with 200, without a scheme fetch and
\* without a model call, and the age and the disability of a session that
\* exists stay as they are, also when the message has a number or a
\* disability keyword; with both words the answer is the login answer, with
\* 'register' alone the register answer.
C30_LoginTouchesNoSlots ==
    [][\A c \in Clients :
          /\ variant \in LoginVariants
          /\ reqs[c].pc \in {"idle", "done", "hung"}
          /\ reqs'[c] # reqs[c]
          /\ ValidBody(reqs'[c].body)
          /\ \/ HasWord(reqs'[c].body.message, <<"l","o","g","i","n">>)
             \/ HasWord(reqs'[c].body.message, <<"r","e","g","i","s","t","e","r">>)
          => /\ reqs'[c].pc = "done"
             /\ reqs'[c].resp.status = 200
             /\ reqs'[c].seen.fetches = 0
             /\ reqs'[c].seen.models = 0
             /\ SlotsUntouched(NamedUser(reqs'[c].body))
             /\ reqs'[c].resp.links =
                   IF HasWord(reqs'[c].body.message, <<"l","o","g","i","n">>)
                   THEN Arr(catalogLogin) ELSE Arr(catalogRegister)]_vars

\* A message with both words, a number and a disability keyword has been
\* answered for a user whose session holds the age 70.
C30_LoginWithSlotsStored ==
    \E c \in Clients :
        /\ variant \in LoginVariants
        /\ Answered(c)
        /\ reqs[c].body.message = msgRegisterLogin30
        /\ userSessions["u1"] # 0
        /\ heap[userSessions["u1"]].age = 70

=============================================================================
